---- MODULE Spec2Model ----
(***************************************************************************)
(* Model of the X1 token audit engine (check-xdex-lp-burn.js v2.5 and the  *)
(* companion scripts): the mint-account decoder, the risk scorers and the  *)
(* LP burn-event scan.                                                     *)
(*                                                                         *)
(* Numbers wider than 31 bits are kept as numerals: a Buffer is a sequence *)
(* of bytes, readUInt32LE yields the 4-byte little-endian numeral, and a   *)
(* BigInt / Number is a little-endian sequence of bits.                    *)
(***************************************************************************)
EXTENDS Integers, Sequences, FiniteSets, TLC

VARIABLES
    rpc,            \* outcome of connection.getAccountInfo: "ok", "null" or "throw"
    data,           \* accountInfo.data, a sequence of bytes
    result,         \* the object checkTokenAuthorities returns
    outcome,        \* "none" before the call, then "returned" or "thrown"
    script,         \* the script whose scorer runs
    audit,          \* the signals handed to that scorer
    riskScore,      \* the score it reports
    riskRating,     \* the level it reports
    pc,             \* "ready", then "scored" or "exited"
    lpQueue,        \* LP mints of uniqueLpMints still to scan
    curMint,        \* the LP mint being scanned
    sigQueue,       \* signatures of its history still to fetch
    chain,          \* signature -> transaction, as fetched so far
    burnCheckedTxs, \* the burn events collected
    totalBurnChecked, \* their summed amount
    scanPc,         \* "mints", "sigs", then "done"
    scanErrors,     \* LP mints with an "Error scanning LP mint" line on stderr
    lpSigs,         \* check-initial-lp-burn.js: signatures still to fetch
    mintEvents,     \* its mintTo events
    burnEvents,     \* its burn events
    totalMinted,    \* summed amount of mintEvents
    totalBurned,    \* summed amount of burnEvents
    initialPc,      \* "history", "sigs", then "done"
    poolQueue,      \* pools whose LP supply is still to be read
    burnedBurnAddr, \* lpBurnStatus.burnedAmount
    totalOriginalLP, \* original LP supply, summed over the pools
    totalCurrentLP, \* circulating LP supply, summed over the pools
    originalLPIsSuspicious, \* the original supply was estimated
    lpSafety,       \* the burn ratio, in tenths of a percent
    fallbackNote,   \* the estimation warning printed, if any
    pctNote,        \* the note after the ratio in the summary table
    ratioPc,        \* "pools", then "done"
    program,        \* the script that runs the audit
    tokenAddress,   \* the token it audits
    provider,       \* what the pool-metadata provider answers to pool/list
    mintRead,       \* how the read of the mint account went
    tokenPools,     \* the pools resolved for the token
    scansLeft,      \* burn scans still to run
    stage,          \* the last stage the audit has completed
    trail,          \* the stages completed so far, in order
    tokens, \* x1-batch-audit.js: the token list of the run
    batchPools, \* the pool list fetched once for the run
    results, \* the results pushed so far
    batchPc,\* "fetch", "loop", then "returned"
    limit, \* checkBurnCheckedTxs: the history depth it is called with
    onChain, \* signatures the chain holds for the LP mint
    signatures, \* signatures still to look up
    lookups, \* getParsedTransaction calls made
    burnsFound, \* the burns collected
    checkPc,\* "history", "loop", then "returned"
    caller, \* the script that calls checkLPBurnStatus
    holdersOf, \* largest accounts of the audited token and of its LP mint
    statusArg, \* the mint checkLPBurnStatus is called with
    accountQueue, \* accounts still to read
    burnedAmount, \* result.burnedAmount
    statusPc,\* "call", "accounts", then "done" or "failed"
    offset, \* polling: the offset of the next getUpdates call
    arrived, \* Telegram: updates 1..arrived have been sent to the bot
    response, \* polling: updates of response.result still to go through
    handled, \* times each update was passed to handleUpdate
    handlerErrors, \* updates whose handler threw
    pollPc,\* "poll", "advance", "handle" or "wait"
    auditHistory, \* telegram-bot.js: the audit history in memory
    historyFile, \* what audit-history.json holds
    clock, \* the /audit commands run so far
    completedAudits, \* the entries loaded at start-up, then those of the audits completed since
    historyPc \* "start", "ready", then "audited" after a completed audit

decoderVars == <<rpc, data, result, outcome>>
scoreVars == <<script, audit, riskScore, riskRating, pc>>

scanVars == <<lpQueue, curMint, sigQueue, chain, burnCheckedTxs,
              totalBurnChecked, scanPc, scanErrors>>

initialVars == <<lpSigs, mintEvents, burnEvents, totalMinted, totalBurned,
                 initialPc>>

ratioVars == <<poolQueue, burnedBurnAddr, totalOriginalLP, totalCurrentLP,
               originalLPIsSuspicious, lpSafety, fallbackNote, pctNote,
               ratioPc>>

vars == <<rpc, data, result, outcome, script, audit, riskScore, riskRating, pc,
          lpQueue, curMint, sigQueue, chain, burnCheckedTxs, totalBurnChecked,
          scanPc, scanErrors, lpSigs, mintEvents, burnEvents, totalMinted, totalBurned,
          initialPc, poolQueue, burnedBurnAddr, totalOriginalLP, totalCurrentLP,
          originalLPIsSuspicious, lpSafety, fallbackNote, pctNote, ratioPc,
          program, tokenAddress, provider, mintRead, tokenPools, scansLeft, stage,
          trail,
          tokens, batchPools, results, batchPc,
          limit, onChain, signatures, lookups, burnsFound, checkPc,
          caller, holdersOf, statusArg, accountQueue, burnedAmount, statusPc,
          offset, arrived, response, handled, handlerErrors, pollPc,
          auditHistory, historyFile, clock, completedAudits, historyPc>>

\* what the steps of one component leave alone
auditVars ==
    <<program, tokenAddress, provider, mintRead, tokenPools, scansLeft, stage,
      trail>>

batchVars == <<tokens, batchPools, results, batchPc>>

checkVars == <<limit, onChain, signatures, lookups, burnsFound, checkPc>>

statusVars == <<caller, holdersOf, statusArg, accountQueue, burnedAmount,
    statusPc>>

pollVars == <<offset, arrived, response, handled, handlerErrors, pollPc>>

historyVars == <<auditHistory, historyFile, clock, completedAudits,
    historyPc>>

outsideDecoder ==
    <<scoreVars, scanVars, initialVars, ratioVars, auditVars, batchVars,
      checkVars, statusVars, pollVars, historyVars>>
outsideScore ==
    <<decoderVars, scanVars, initialVars, ratioVars, auditVars, batchVars,
      checkVars, statusVars, pollVars, historyVars>>
outsideScan ==
    <<decoderVars, scoreVars, initialVars, ratioVars, auditVars,
      batchVars, checkVars, statusVars, pollVars, historyVars>>
outsideInitial ==
    <<decoderVars, scoreVars, scanVars, ratioVars, auditVars, batchVars,
      checkVars, statusVars, pollVars, historyVars>>
outsideRatio ==
    <<decoderVars, scoreVars, scanVars, initialVars, auditVars, batchVars,
      checkVars, statusVars, pollVars, historyVars>>
outsideAudit ==
    <<decoderVars, scoreVars, scanVars, initialVars, ratioVars, batchVars,
      checkVars, statusVars, pollVars, historyVars>>
outsideBatch ==
    <<decoderVars, scoreVars, scanVars, initialVars, ratioVars, auditVars,
      checkVars, statusVars, pollVars, historyVars>>
outsideCheck ==
    <<scoreVars, scanVars, initialVars, ratioVars, auditVars, batchVars,
      decoderVars, statusVars, pollVars, historyVars>>
outsideStatus ==
    <<scoreVars, scanVars, initialVars, ratioVars, auditVars, batchVars,
      checkVars, decoderVars, pollVars, historyVars>>
outsidePoll ==
    <<scoreVars, scanVars, initialVars, ratioVars, auditVars, batchVars,
      checkVars, statusVars, decoderVars, historyVars>>
outsideHistory ==
    <<scoreVars, scanVars, initialVars, ratioVars, auditVars, batchVars,
      checkVars, statusVars, pollVars, decoderVars>>

(***************************************************************************)
(* Bounds of the model.                                                    *)
(***************************************************************************)
MaxExtra == 2       \* extension bytes after the 82-byte mint layout
MaxHolders == 6     \* entries of holderData.topHolders
MaxPools == 2       \* pools resolved for the token
MaxMints == 2       \* distinct LP mints of the resolved pools
MaxSigs == 2        \* signatures on the chain
MaxIx == 2          \* instructions of one transaction
MaxListed == 2      \* pools in the provider's list
MaxTokens == 3      \* tokens of one batch run
MaxLimit == 3       \* history depth checkBurnCheckedTxs is called with
MaxAccounts == 2    \* largest accounts of one mint
MaxUpdates == 4     \* updates sent to the bot
MaxOver == 2        \* entries of the history file beyond maxHistory
MaxAudits == 3      \* /audit commands of a run

(***************************************************************************)
(* Program constants.                                                      *)
(***************************************************************************)
MintLen == 82       \* data.length >= 82
MantissaBits == 53  \* significand of the double Number() produces
Null == <<>>        \* JavaScript null in an address field
HistoryLimit == 100 \* getSignaturesForAddress(..., { limit: 100 })
InitialHistoryLimit == 200 \* check-initial-lp-burn.js: { limit: 200 }

(***************************************************************************)
(* Buffer reads.  Offsets are the 0-based offsets of the source.           *)
(***************************************************************************)
slice(buf, from, to) == SubSeq(buf, from + 1, to)

readUInt8(buf, off) == buf[off + 1]

\* the 32-bit word as its little-endian numeral <<b0, b1, b2, b3>>
readUInt32LE(buf, off) == slice(buf, off, off + 4)

U32One == <<1, 0, 0, 0>>

(***************************************************************************)
(* BigInt arithmetic on little-endian bit sequences.                       *)
(***************************************************************************)
ByteBits(b) == [i \in 1..8 |-> (b \div (2 ^ (i - 1))) % 2]

RECURSIVE BytesToBits(_)
BytesToBits(bs) ==
    IF bs = <<>> THEN <<>> ELSE ByteBits(Head(bs)) \o BytesToBits(Tail(bs))

\* BigInt(word): a 32-bit numeral as 32 bits
BigInt(word) == BytesToBits(word)

\* (supplyHigh << BigInt(32)) | supplyLow, a 64-bit value
ShiftOr(high, low) == low \o high

HighBit(bits) ==
    IF \E i \in 1..Len(bits) : bits[i] = 1
    THEN CHOOSE i \in 1..Len(bits) :
            bits[i] = 1 /\ \A j \in (i + 1)..Len(bits) : bits[j] = 0
    ELSE 0

RECURSIVE AddBit(_, _)
AddBit(bits, pos) ==
    IF pos > Len(bits) THEN bits
    ELSE IF bits[pos] = 0 THEN [bits EXCEPT ![pos] = 1]
    ELSE AddBit([bits EXCEPT ![pos] = 0], pos + 1)

\* Number(bigint): the nearest double, ties to even, as a 65-bit integer
Number(bits) ==
    LET wide == bits \o <<0>>
        k == HighBit(bits) - MantissaBits
    IN  IF k <= 0 THEN wide
        ELSE LET guard == bits[k]
                 sticky == \E i \in 1..(k - 1) : bits[i] = 1
                 lsb == bits[k + 1]
                 trunc == [i \in 1..Len(wide) |-> IF i <= k THEN 0 ELSE wide[i]]
             IN  IF guard = 1 /\ (sticky \/ lsb = 1)
                 THEN AddBit(trunc, k + 1)
                 ELSE trunc

NumberZero == [i \in 1..65 |-> 0]

(***************************************************************************)
(* new PublicKey(bytes).toBase58(): the base-58 digits (alphabet           *)
(* positions, most significant first) of the big-endian number, one digit  *)
(* 0 for every leading zero byte.                                          *)
(***************************************************************************)
RECURSIVE StripZeros(_)
StripZeros(ds) ==
    IF ds # <<>> /\ Head(ds) = 0 THEN StripZeros(Tail(ds)) ELSE ds

LeadingZeros(ds) == Len(ds) - Len(StripZeros(ds))

RECURSIVE LongDiv58(_, _, _)
LongDiv58(ds, rem, q) ==
    IF ds = <<>> THEN [q |-> q, r |-> rem]
    ELSE LET cur == rem * 256 + Head(ds)
         IN  LongDiv58(Tail(ds), cur % 58, Append(q, cur \div 58))

RECURSIVE Base58Digits(_)
Base58Digits(n) ==
    IF n = <<>> THEN <<>>
    ELSE LET d == LongDiv58(n, 0, <<>>)
         IN  Append(Base58Digits(StripZeros(d.q)), d.r)

toBase58(bytes) ==
    [i \in 1..LeadingZeros(bytes) |-> 0] \o Base58Digits(StripZeros(bytes))

(***************************************************************************)
(* checkTokenAuthorities (check-xdex-lp-burn.js)                           *)
(***************************************************************************)
\* a result object that starts out with both authorities revoked
DefaultResultRevoked ==
    [mintAuthority |-> Null, mintAuthorityRevoked |-> TRUE,
     freezeAuthority |-> Null, freezeAuthorityRevoked |-> TRUE,
     supply |-> NumberZero, decimals |-> 0]

\* const result = { mintAuthority: null, mintAuthorityRevoked: false, ... }
DefaultResult ==
    [mintAuthority |-> Null, mintAuthorityRevoked |-> FALSE,
     freezeAuthority |-> Null, freezeAuthorityRevoked |-> FALSE,
     supply |-> NumberZero, decimals |-> 0]

parseMint(buf) ==
    LET mintAuthOption == readUInt32LE(buf, 0)
        supplyLow == BigInt(readUInt32LE(buf, 36))
        supplyHigh == BigInt(readUInt32LE(buf, 40))
        freezeAuthOption == readUInt32LE(buf, 46)
    IN  [mintAuthority |->
            IF mintAuthOption = U32One THEN toBase58(slice(buf, 4, 36)) ELSE Null,
         mintAuthorityRevoked |-> mintAuthOption # U32One,
         freezeAuthority |->
            IF freezeAuthOption = U32One THEN toBase58(slice(buf, 50, 82)) ELSE Null,
         freezeAuthorityRevoked |-> freezeAuthOption # U32One,
         supply |-> Number(ShiftOr(supplyHigh, supplyLow)),
         decimals |-> readUInt8(buf, 44)]

\* the same with the length test of an exact-size check (=== 82)
checkTokenAuthoritiesExactLen(r, buf) ==
    IF r = "throw" THEN DefaultResult
    ELSE IF r = "null" THEN DefaultResult
    ELSE IF Len(buf) = MintLen THEN parseMint(buf)
    ELSE DefaultResult

checkTokenAuthorities(r, buf) ==
    IF r = "throw" THEN DefaultResult          \* caught, logged
    ELSE IF r = "null" THEN DefaultResult      \* if (!accountInfo) return result
    ELSE IF Len(buf) >= MintLen THEN parseMint(buf)
    ELSE DefaultResult

(***************************************************************************)
(* Mint accounts the decoder is run on.                                    *)
(***************************************************************************)
OptionWords == {<<0, 0, 0, 0>>, <<1, 0, 0, 0>>, <<2, 0, 0, 0>>, <<1, 0, 0, 1>>}
SupplyLowWords == {<<0, 0, 0, 0>>, <<1, 0, 0, 0>>, <<0, 202, 154, 59>>,
                   <<255, 255, 255, 255>>}
SupplyHighWords == {<<0, 0, 0, 0>>, <<0, 0, 32, 0>>, <<255, 255, 255, 255>>}
KeyFills == {0, 170}
DecimalsSet == {0, 9, 255}
DataLens == {0, MintLen - 1} \cup (MintLen..(MintLen + MaxExtra))

Key(fill) == [i \in 1..32 |-> IF i = 1 THEN fill ELSE 170]

MintBytes(mo, mk, lo, hi, dec, fo, fk, ext) ==
    mo \o Key(mk) \o lo \o hi \o <<dec, 1>> \o fo \o Key(fk)
       \o [i \in 1..MaxExtra |-> ext]

DecoderIdle ==
    /\ rpc = "null"
    /\ data = <<>>
    /\ result = DefaultResult
    /\ outcome = "none"

DecoderInputs ==
    /\ rpc \in {"ok", "null", "throw"}
    /\ IF rpc = "ok"
       THEN \E mo \in OptionWords, mk \in KeyFills, lo \in SupplyLowWords,
               hi \in SupplyHighWords, dec \in DecimalsSet, fo \in OptionWords,
               fk \in KeyFills, ext \in {0, 1}, len \in DataLens :
                data = SubSeq(MintBytes(mo, mk, lo, hi, dec, fo, fk, ext), 1, len)
       ELSE data = <<>>
    /\ result = DefaultResult
    /\ outcome = "none"

\* const tokenInfo = await checkTokenAuthorities(connection, mintPubkey)
DecodeMint ==
    /\ outcome = "none"
    /\ result' = checkTokenAuthorities(rpc, data)
    /\ outcome' = "returned"
    /\ UNCHANGED <<rpc, data>>
    /\ UNCHANGED outsideDecoder

(***************************************************************************)
(* Risk scoring.  Percentages are carried in tenths of a percent           *)
(* (99.9% is 999), the resolution of toFixed(1) and of the 99.9 cap.       *)
(***************************************************************************)
Min(a, b) == IF a <= b THEN a ELSE b

RECURSIVE SumPct(_)
SumPct(hs) == IF hs = <<>> THEN 0 ELSE Head(hs).pct + SumPct(Tail(hs))

\* the bands with exclusive lower bounds
BurnBandExclusive(lpBurnedPct) ==
    IF lpBurnedPct > 900 THEN 0
    ELSE IF lpBurnedPct > 500 THEN 5
    ELSE IF lpBurnedPct > 250 THEN 10
    ELSE IF lpBurnedPct > 100 THEN 15
    ELSE 25

\* LP Burn status (0-25 points based on burn %)
BurnBand(lpBurnedPct) ==
    IF lpBurnedPct >= 900 THEN 0
    ELSE IF lpBurnedPct >= 500 THEN 5
    ELSE IF lpBurnedPct >= 250 THEN 10
    ELSE IF lpBurnedPct >= 100 THEN 15
    ELSE 25

\* Holder concentration (10-20 points)
Concentration(topHolders) ==
    IF Len(topHolders) > 0
    THEN LET topHoldersPct == SumPct(SubSeq(topHolders, 1, Min(5, Len(topHolders))))
         IN  IF topHoldersPct > 500 THEN 20
             ELSE IF topHoldersPct > 300 THEN 10
             ELSE 0
    ELSE 0

\* the same with the authority tests inverted, as in x1-batch-audit.js
calculateRiskScoreInverted(tokenInfo, burnStatus, holderData, poolsCount) ==
    LET score == (IF tokenInfo.mintAuthorityRevoked THEN 30 ELSE 0)
               + (IF tokenInfo.freezeAuthorityRevoked THEN 20 ELSE 0)
               + BurnBand(burnStatus.burnPercentage)
               + Concentration(holderData.topHolders)
    IN  Min(score, 100)

\* calculateRiskScore of check-xdex-lp-burn.js
calculateRiskScore(tokenInfo, burnStatus, holderData, poolsCount) ==
    LET score == (IF ~tokenInfo.mintAuthorityRevoked THEN 30 ELSE 0)
               + (IF ~tokenInfo.freezeAuthorityRevoked THEN 20 ELSE 0)
               + BurnBand(burnStatus.burnPercentage)
               + Concentration(holderData.topHolders)
    IN  Min(score, 100)

\* getRiskRating of check-xdex-lp-burn.js
getRiskRating(score) ==
    IF score = 0 THEN "LOW"
    ELSE IF score <= 25 THEN "LOW"
    ELSE IF score <= 50 THEN "MEDIUM"
    ELSE IF score <= 75 THEN "HIGH"
    ELSE "CRITICAL"

\* the "Risk Levels" legend check-xdex-lp-burn.js prints under every report
RiskLegend(score) ==
    IF score <= 24 THEN "LOW"
    ELSE IF score <= 49 THEN "MEDIUM"
    ELSE IF score <= 75 THEN "HIGH"
    ELSE "CRITICAL"

\* calculateRiskScore of x1-batch-audit.js
batchCalculateRiskScore(a) ==
    (IF a.mintAuthorityRevoked THEN 30 ELSE 0)
  + (IF a.freezeAuthorityRevoked THEN 20 ELSE 0)
  + (IF a.lpNotBurned THEN 25 ELSE 0)
  + (IF a.holderCount # 0 /\ a.holderCount > 1000 THEN 10
     ELSE IF a.holderCount # 0 THEN 20 ELSE 0)

\* calculateRiskScore of x1-audit-export.js
exportCalculateRiskScore(a) ==
    (IF a.mintAuthorityRevoked THEN 30 ELSE 0)
  + (IF a.freezeAuthorityRevoked THEN 20 ELSE 0)
  + (IF a.lpNotBurned THEN 25 ELSE 0)
  + (IF a.holderCount # 0 /\ a.holderCount > 1000 THEN 10
     ELSE IF a.holderCount # 0 THEN 20 ELSE 0)

\* auditToken of x1-batch-audit.js: "Determine risk rating"
batchRiskRating(score) ==
    IF score <= 30 THEN "LOW" ELSE IF score <= 60 THEN "MEDIUM" ELSE "HIGH"

\* main of x1-audit-export.js: riskRating
exportRiskRating(score) ==
    IF score >= 50 THEN "HIGH RISK"
    ELSE IF score >= 25 THEN "MEDIUM RISK"
    ELSE "LOW RISK"

\* the LP mint authority term with a weight of 20
LpMintAuthorityWeight20(lpBurnStatus, pools) ==
    IF lpBurnStatus # Null /\ lpBurnStatus.mintAuthorityRevoked THEN 0
    ELSE IF pools > 0 THEN 20
    ELSE 0

\* main of x1-token-audit.js: RISK SCORE CALCULATION
LpMintAuthorityWeight(lpBurnStatus, pools) ==
    IF lpBurnStatus # Null /\ lpBurnStatus.mintAuthorityRevoked THEN 0
    ELSE IF pools > 0 THEN 15
    ELSE 0

tokenAuditRiskScore(mintInfo, lpBurnStatus, pools, holders) ==
    (IF mintInfo.mintAuthorityRevoked THEN 0 ELSE 30)
  + (IF mintInfo.freezeAuthorityRevoked THEN 0 ELSE 20)
  + (IF lpBurnStatus # Null /\ lpBurnStatus.burnedAmount > 0 THEN 0
     ELSE IF pools > 0 THEN 25 ELSE 0)
  + LpMintAuthorityWeight(lpBurnStatus, pools)
  + (IF holders.top10Pct > 800 THEN 10 ELSE 0)

\* main of x1-token-audit.js: Risk rating
tokenAuditRiskRating(score) ==
    IF score >= 50 THEN "HIGH" ELSE IF score >= 25 THEN "MEDIUM" ELSE "LOW"

\* runFullAudit of telegram-bot.js: "Calculate risk score"
telegramRiskScore(tokenInfo, totalBurnedLp) ==
    (IF tokenInfo.mintAuthorityRevoked THEN 0 ELSE 30)
  + (IF tokenInfo.freezeAuthorityRevoked THEN 0 ELSE 20)
  + (IF totalBurnedLp > 0 THEN 0 ELSE 25)

\* runFullAudit of telegram-bot.js: riskRating
telegramRiskRating(score) ==
    IF score >= 50 THEN "HIGH" ELSE IF score >= 25 THEN "MEDIUM" ELSE "LOW"

\* README.md, Risk Scoring: 0-24 LOW, 25-49 MEDIUM, 50-100 HIGH
ReadmeLevel(score) ==
    IF score <= 24 THEN "LOW" ELSE IF score <= 49 THEN "MEDIUM" ELSE "HIGH"

(***************************************************************************)
(* Signals the scorers are run on.                                         *)
(***************************************************************************)
AuthorityFlags ==
    [mintAuthorityRevoked : BOOLEAN, freezeAuthorityRevoked : BOOLEAN]

BurnPcts == {0, 99, 100, 249, 250, 499, 500, 899, 900, 999, 1000}
HolderPcts == {100, 101, 300}
HolderCounts == {0, 1, 1000, 1001}
Top10Pcts == {0, 800, 801, 1000}

\* getTokenHolders: sorted by amount, shares of one total
HolderLists ==
    {hs \in UNION {[1..n -> [pct : HolderPcts]] : n \in 0..MaxHolders} :
        /\ \A i \in 1..(Len(hs) - 1) : hs[i].pct >= hs[i + 1].pct
        /\ SumPct(hs) <= 1000}

\* without a pool the ratio is 0, or 99.9 by the last fallback
LpBurnAudits ==
    {a \in [fetchOk : {TRUE}, tokenInfo : AuthorityFlags,
            burnStatus : [burnPercentage : BurnPcts],
            holderData : [topHolders : HolderLists], poolsCount : 0..MaxPools] :
        a.poolsCount = 0 => a.burnStatus.burnPercentage \in {0, 999}}
    \cup
    [fetchOk : {FALSE}, tokenInfo : {[mintAuthorityRevoked |-> FALSE,
                                      freezeAuthorityRevoked |-> FALSE]},
     burnStatus : {[burnPercentage |-> 0]},
     holderData : {[topHolders |-> <<>>]}, poolsCount : {0}]

LpBurnStatuses ==
    {Null} \cup [burnedAmount : {0, 5}, mintAuthorityRevoked : BOOLEAN]

TokenAudits ==
    {a \in [exists : BOOLEAN, mintInfo : AuthorityFlags,
            lpBurnStatus : LpBurnStatuses, pools : 0..MaxPools,
            holders : [top10Pct : Top10Pcts]] :
        /\ (a.lpBurnStatus # Null => a.pools > 0)
        /\ (~a.exists => /\ a.lpBurnStatus = Null /\ a.pools = 0
                         /\ a.holders.top10Pct = 0
                         /\ ~a.mintInfo.mintAuthorityRevoked
                         /\ ~a.mintInfo.freezeAuthorityRevoked)}

BatchAudits ==
    [validMint : BOOLEAN, mintAuthorityRevoked : BOOLEAN,
     freezeAuthorityRevoked : BOOLEAN, lpNotBurned : BOOLEAN,
     holderCount : HolderCounts]

ExportAudits ==
    [mintAuthorityRevoked : BOOLEAN, freezeAuthorityRevoked : BOOLEAN,
     lpNotBurned : BOOLEAN, holderCount : 0..MaxPools]

TelegramAudits == [tokenInfo : AuthorityFlags, totalBurned : {0, 5}]

ScoreIdle ==
    /\ script = "none"
    /\ audit = Null
    /\ riskScore = 0
    /\ riskRating = "none"
    /\ pc = "idle"

ScoreInputs ==
    /\ script \in {"lp-burn", "token-audit", "batch", "export", "telegram"}
    /\ audit \in CASE script = "lp-burn" -> LpBurnAudits
                   [] script = "token-audit" -> TokenAudits
                   [] script = "batch" -> BatchAudits
                   [] script = "export" -> ExportAudits
                   [] script = "telegram" -> TelegramAudits
    /\ riskScore = 0
    /\ riskRating = "none"
    /\ pc = "ready"

\* check-xdex-lp-burn.js main: riskScore, riskRating
LpBurnScore ==
    /\ pc = "ready" /\ script = "lp-burn" /\ audit.fetchOk
    /\ riskScore' = calculateRiskScore(audit.tokenInfo, audit.burnStatus,
                                       audit.holderData, audit.poolsCount)
    /\ riskRating' = getRiskRating(riskScore')
    /\ pc' = "scored"
    /\ UNCHANGED <<script, audit, outsideScore>>

\* check-xdex-lp-burn.js main: the pool list cannot be fetched, process.exit(1)
LpBurnExit ==
    /\ pc = "ready" /\ script = "lp-burn" /\ ~audit.fetchOk
    /\ pc' = "exited"
    /\ UNCHANGED <<script, audit, riskScore, riskRating, outsideScore>>

\* x1-token-audit.js main: risk score and level
TokenAuditScore ==
    /\ pc = "ready" /\ script = "token-audit" /\ audit.exists
    /\ riskScore' = tokenAuditRiskScore(audit.mintInfo, audit.lpBurnStatus,
                                        audit.pools, audit.holders)
    /\ riskRating' = tokenAuditRiskRating(riskScore')
    /\ pc' = "scored"
    /\ UNCHANGED <<script, audit, outsideScore>>

\* x1-token-audit.js main: mint not found, process.exit(1)
TokenAuditExit ==
    /\ pc = "ready" /\ script = "token-audit" /\ ~audit.exists
    /\ pc' = "exited"
    /\ UNCHANGED <<script, audit, riskScore, riskRating, outsideScore>>

\* x1-batch-audit.js auditToken, the try block completes
BatchScore ==
    /\ pc = "ready" /\ script = "batch" /\ audit.validMint
    /\ riskScore' = batchCalculateRiskScore(audit)
    /\ riskRating' = batchRiskRating(riskScore')
    /\ pc' = "scored"
    /\ UNCHANGED <<script, audit, outsideScore>>

\* x1-batch-audit.js auditToken, new PublicKey(mint) throws: defaults kept
BatchAuditFailed ==
    /\ pc = "ready" /\ script = "batch" /\ ~audit.validMint
    /\ riskScore' = 100
    /\ riskRating' = "UNKNOWN"
    /\ pc' = "scored"
    /\ UNCHANGED <<script, audit, outsideScore>>

\* x1-audit-export.js main: riskScore, riskRating
ExportScore ==
    /\ pc = "ready" /\ script = "export"
    /\ riskScore' = exportCalculateRiskScore(audit)
    /\ riskRating' = exportRiskRating(riskScore')
    /\ pc' = "scored"
    /\ UNCHANGED <<script, audit, outsideScore>>

\* telegram-bot.js runFullAudit: riskScore, riskRating
TelegramScore ==
    /\ pc = "ready" /\ script = "telegram"
    /\ riskScore' = telegramRiskScore(audit.tokenInfo, audit.totalBurned)
    /\ riskRating' = telegramRiskRating(riskScore')
    /\ pc' = "scored"
    /\ UNCHANGED <<script, audit, outsideScore>>

(***************************************************************************)
(* LP burn scan of check-xdex-lp-burn.js main ("Count burn transactions"). *)
(* Signatures are numbered newest first; a mint's history is the ascending *)
(* list of the signatures that mention it.  chain holds the content of the *)
(* transactions fetched so far, so a signature met again in another mint's *)
(* history yields the same transaction; it stops recording once the last   *)
(* LP mint is being scanned, whose history holds each signature once.      *)
(***************************************************************************)
SigIds == 1..MaxSigs
LpMintIds == 1..MaxMints

IsBurnType(type) == type = "burnChecked" \/ type = "burn"
IsCloseType(type) == type = "closeAccount" \/ type = "closeChecked"

\* info.mint || lpMint  (mint 0: the field is absent)
OrMint(mint, lpMint) == IF mint # 0 THEN mint ELSE lpMint

BurnEvent(sig, ix, lpMint) ==
    [signature |-> sig, type |-> ix.type, amount |-> ix.amount,
     mint |-> OrMint(ix.mint, lpMint)]

\* Method 1: burnChecked / burn instructions
RECURSIVE Method1(_, _, _, _)
Method1(events, ixs, sig, lpMint) ==
    IF ixs = <<>> THEN events
    ELSE IF IsBurnType(Head(ixs).type)
         THEN Method1(Append(events, BurnEvent(sig, Head(ixs), lpMint)),
                      Tail(ixs), sig, lpMint)
         ELSE Method1(events, Tail(ixs), sig, lpMint)

\* the balance after taken as zero without a look at postTokenBalances
PostAmountUnread(posts, pre, lpMint) == 0

\* postTokenBalances.find(p => p.accountIndex === pre.accountIndex && p.mint === lpMint)
PostAmount(posts, pre, lpMint) ==
    LET hits == {i \in 1..Len(posts) :
                    posts[i].accountIndex = pre.accountIndex /\ posts[i].mint = lpMint}
    IN  IF hits = {} THEN 0
        ELSE posts[CHOOSE i \in hits : \A j \in hits : i <= j].amount

HasClose(ixs) == \E i \in 1..Len(ixs) : IsCloseType(ixs[i].type)

HasSignature(events, sig) == \E i \in 1..Len(events) : events[i].signature = sig

\* Method 2: closeAccount burn (balance zeroed + account closed)
RECURSIVE Method2(_, _, _, _, _)
Method2(events, pres, tx, sig, lpMint) ==
    IF pres = <<>> THEN events
    ELSE LET pre == Head(pres)
             rest == Tail(pres)
         IN  IF pre.mint # lpMint THEN Method2(events, rest, tx, sig, lpMint)
             ELSE IF pre.amount <= 0 THEN Method2(events, rest, tx, sig, lpMint)
             ELSE IF /\ PostAmount(tx.meta.post, pre, lpMint) = 0
                     /\ HasClose(tx.instructions)
                     /\ ~HasSignature(events, sig)
                  THEN Method2(Append(events,
                                  [signature |-> sig, type |-> "closeAccount (burn)",
                                   amount |-> pre.amount, mint |-> lpMint]),
                               rest, tx, sig, lpMint)
                  ELSE Method2(events, rest, tx, sig, lpMint)

\* the body of the loop over lpSignatures for one fetched transaction
ScanTransaction(events, tx, sig, lpMint) ==
    LET afterBurns == Method1(events, tx.instructions, sig, lpMint)
    IN  IF tx.meta # Null
        THEN Method2(afterBurns, tx.meta.pre, tx, sig, lpMint)
        ELSE afterBurns

RECURSIVE SumAmount(_)
SumAmount(events) ==
    IF events = <<>> THEN 0 ELSE Head(events).amount + SumAmount(Tail(events))

(***************************************************************************)
(* Transactions the scan is run on.                                        *)
(***************************************************************************)
IxSet ==
    {[type |-> "burnChecked", amount |-> 3, mint |-> 1],
     [type |-> "burn", amount |-> 2, mint |-> 0],
     [type |-> "closeAccount", amount |-> 0, mint |-> 0]}

IxSeqs == UNION {[1..n -> IxSet] : n \in 0..MaxIx}

Bal(idx, amt) == [accountIndex |-> idx, mint |-> 1, amount |-> amt]

\* no balances reported; both accounts emptied; only account 2 emptied
MetaSet ==
    {Null} \cup
    [pre : {<<Bal(1, 5), Bal(2, 4)>>},
     post : {<<>>, <<Bal(1, 5)>>}]

TxSet == [instructions : IxSeqs, meta : MetaSet]

RECURSIVE Ascending(_)
Ascending(S) ==
    IF S = {} THEN <<>>
    ELSE LET m == CHOOSE x \in S : \A y \in S : x <= y
         IN  <<m>> \o Ascending(S \ {m})

ScanIdle ==
    /\ lpQueue = <<>>
    /\ curMint = 0
    /\ sigQueue = <<>>
    /\ chain = <<>>
    /\ burnCheckedTxs = <<>>
    /\ totalBurnChecked = 0
    /\ scanPc = "idle"
    /\ scanErrors = {}

\* uniqueLpMints of the resolved pools
ScanInputs ==
    /\ \E n \in 0..MaxMints : lpQueue = [i \in 1..n |-> i]
    /\ curMint = 0
    /\ sigQueue = <<>>
    /\ chain = <<>>
    /\ burnCheckedTxs = <<>>
    /\ totalBurnChecked = 0
    /\ scanPc = IF lpQueue = <<>> THEN "done" ELSE "mints"
    /\ scanErrors = {}

\* where the loops stand once the current step is over
AfterStep(mints, sigs, events) ==
    /\ scanPc' = IF sigs # <<>> THEN "sigs"
                 ELSE IF mints # <<>> THEN "mints" ELSE "done"
    /\ totalBurnChecked' = IF sigs = <<>> /\ mints = <<>>
                           THEN SumAmount(events) ELSE totalBurnChecked

\* connection.getSignaturesForAddress(lpMintPubkey, { limit: 100 }) answers
GetSignatures ==
    /\ scanPc = "mints"
    /\ \E hist \in SUBSET SigIds :
          /\ Cardinality(hist) <= HistoryLimit
          /\ curMint' = Head(lpQueue)
          /\ lpQueue' = Tail(lpQueue)
          /\ sigQueue' = Ascending(hist)
          /\ AfterStep(lpQueue', sigQueue', burnCheckedTxs)
    /\ UNCHANGED <<chain, burnCheckedTxs, scanErrors, outsideScan>>

\* it throws: the outer catch logs and the loop goes to the next LP mint
GetSignaturesFails ==
    /\ scanPc = "mints"
    /\ curMint' = Head(lpQueue)
    /\ lpQueue' = Tail(lpQueue)
    /\ sigQueue' = <<>>
    /\ scanErrors' = scanErrors \cup {curMint'}
    /\ AfterStep(lpQueue', sigQueue', burnCheckedTxs)
    /\ UNCHANGED <<chain, burnCheckedTxs, outsideScan>>

\* connection.getParsedTransaction(sig) returns the transaction
GetParsedTransaction ==
    /\ scanPc = "sigs"
    /\ LET sig == Head(sigQueue) IN
       \E tx \in TxSet :
          /\ sig \in DOMAIN chain => tx = chain[sig]
          /\ chain' = IF lpQueue = <<>> THEN chain   \* no history left to meet it in
                       ELSE [s \in DOMAIN chain \cup {sig} |->
                                IF s = sig THEN tx ELSE chain[s]]
          /\ burnCheckedTxs' = ScanTransaction(burnCheckedTxs, tx, sig, curMint)
    /\ sigQueue' = Tail(sigQueue)
    /\ AfterStep(lpQueue, sigQueue', burnCheckedTxs')
    /\ UNCHANGED <<lpQueue, curMint, scanErrors, outsideScan>>

\* it returns null or throws: the signature is skipped
GetParsedTransactionFails ==
    /\ scanPc = "sigs"
    /\ sigQueue' = Tail(sigQueue)
    /\ AfterStep(lpQueue, sigQueue', burnCheckedTxs)
    /\ UNCHANGED <<lpQueue, curMint, chain, burnCheckedTxs, scanErrors, outsideScan>>

(***************************************************************************)
(* check-initial-lp-burn.js main: the history of one pool's LP mint.       *)
(* Signatures are numbered newest first, so an older transaction has the   *)
(* larger number and the earlier date.                                     *)
(***************************************************************************)
BURN_ADDRESSES ==
    {"1nc1nerator11111111111111111111111111111111",
     "11111111111111111111111111111111",
     "1111111111111111111111111111111111111111111"}

IsMintType(type) == type = "mintTo" \/ type = "mintToChecked"
IsTransferType(type) == type = "transfer" \/ type = "transferChecked"

\* the instructions of one transaction, in order: mintTo, burn, transfer
RECURSIVE TrackMints(_, _, _)
TrackMints(events, ixs, sig) ==
    IF ixs = <<>> THEN events
    ELSE LET ix == Head(ixs)
         IN  IF IsMintType(ix.type) /\ ix.amount > 0
             THEN TrackMints(Append(events, [amount |-> ix.amount,
                                             destination |-> ix.account,
                                             tx |-> sig]),
                             Tail(ixs), sig)
             ELSE TrackMints(events, Tail(ixs), sig)

RECURSIVE TrackBurns(_, _, _)
TrackBurns(events, ixs, sig) ==
    IF ixs = <<>> THEN events
    ELSE LET ix == Head(ixs)
             direct == IF IsBurnType(ix.type) /\ ix.amount > 0
                       THEN Append(events, [amount |-> ix.amount,
                                            type |-> "Direct Burn", tx |-> sig])
                       ELSE events
             sunk == IF IsTransferType(ix.type) /\ ix.destination \in BURN_ADDRESSES
                     THEN Append(direct, [amount |-> ix.amount,
                                          type |-> "Transfer to Incinerator",
                                          tx |-> sig])
                     ELSE direct
         IN  TrackBurns(sunk, Tail(ixs), sig)

\* events.sort((a, b) => new Date(a.date) - new Date(b.date)): stable,
\* oldest transaction first
RECURSIVE SortByDate(_, _)
SortByDate(events, sig) ==
    IF sig = 0 THEN <<>>
    ELSE SelectSeq(events, LAMBDA e : e.tx = sig) \o SortByDate(events, sig - 1)

InitialIxSet ==
    {[type |-> "mintTo", amount |-> 5, account |-> "Creator", destination |-> ""],
     [type |-> "burn", amount |-> 3, account |-> "Creator", destination |-> ""],
     [type |-> "transfer", amount |-> 3, account |-> "",
      destination |-> "1nc1nerator11111111111111111111111111111111"],
     [type |-> "transfer", amount |-> 3, account |-> "", destination |-> "Holder"]}

InitialTxSet == UNION {[1..n -> InitialIxSet] : n \in 0..MaxIx}

InitialIdle ==
    /\ lpSigs = <<>>
    /\ mintEvents = <<>>
    /\ burnEvents = <<>>
    /\ totalMinted = 0
    /\ totalBurned = 0
    /\ initialPc = "idle"

InitialInputs ==
    /\ lpSigs = <<>>
    /\ mintEvents = <<>>
    /\ burnEvents = <<>>
    /\ totalMinted = 0
    /\ totalBurned = 0
    /\ initialPc = "history"

\* the loop over lpSigs is over: both lists are sorted by date
InitialAfterStep(sigs, mints, burns) ==
    IF sigs # <<>>
    THEN /\ initialPc' = "sigs"
         /\ mintEvents' = mints
         /\ burnEvents' = burns
    ELSE /\ initialPc' = "done"
         /\ mintEvents' = SortByDate(mints, MaxSigs)
         /\ burnEvents' = SortByDate(burns, MaxSigs)

\* connection.getSignaturesForAddress(lpMintPubkey, { limit: 200 }) answers
InitialGetSignatures ==
    /\ initialPc = "history"
    /\ \E hist \in SUBSET SigIds :
          /\ Cardinality(hist) <= InitialHistoryLimit
          /\ lpSigs' = Ascending(hist)
    /\ InitialAfterStep(lpSigs', mintEvents, burnEvents)
    /\ UNCHANGED <<totalMinted, totalBurned, outsideInitial>>

\* connection.getParsedTransaction(sig) returns a transaction with meta
InitialGetParsedTransaction ==
    /\ initialPc = "sigs"
    /\ \E ixs \in InitialTxSet :
          LET sig == Head(lpSigs)
              mints == TrackMints(mintEvents, ixs, sig)
              burns == TrackBurns(burnEvents, ixs, sig)
          IN  /\ totalMinted' = SumAmount(mints)
              /\ totalBurned' = SumAmount(burns)
              /\ lpSigs' = Tail(lpSigs)
              /\ InitialAfterStep(lpSigs', mints, burns)
    /\ UNCHANGED outsideInitial

\* it returns null, a transaction without meta, or throws: skipped
InitialGetParsedTransactionFails ==
    /\ initialPc = "sigs"
    /\ lpSigs' = Tail(lpSigs)
    /\ InitialAfterStep(lpSigs', mintEvents, burnEvents)
    /\ UNCHANGED <<totalMinted, totalBurned, outsideInitial>>

(***************************************************************************)
(* check-xdex-lp-burn.js main: "LP Burned percentage calculation".         *)
(* Amounts are whole LP tokens.  NaN stands for the value parseInt yields  *)
(* on an lpSupply string that is not hexadecimal.                          *)
(***************************************************************************)
NaN == 0 - 1

Plus(a, b) == IF a = NaN \/ b = NaN THEN NaN ELSE a + b

\* x > 0, false for NaN
Positive(x) == x # NaN /\ x > 0

Max(a, b) == IF a >= b THEN a ELSE b

\* (a / b) * 100, in tenths of a percent
Pct(a, b) == (1000 * a) \div b

\* if (lpBurnedPct > 99.9) lpBurnedPct = 99.9
Cap(p) == IF p > 999 THEN 999 ELSE p

onChainBurnedUnfloored(original, current) == original - current

\* Math.max(0, totalOriginalLP - totalCurrentLP)
onChainBurned(original, current) == Max(0, original - current)

\* lines 647-696 and 717: from the summed supplies and the burn amounts to
\* the ratio and its notes
BurnPercentage(apiOriginal, current, burnChecked, burnAddr) ==
    LET hasBurnData == burnChecked > 0 \/ burnAddr > 0
        suspicious == hasBurnData /\ current > 0 /\ apiOriginal = 0
        original == IF suspicious THEN current + burnChecked + burnAddr
                    ELSE apiOriginal
        hasBurns == burnChecked > 0 \/ burnAddr > 0
        note == IF suspicious /\ hasBurnData THEN " (est.)" ELSE ""
    IN  IF Positive(original)
        THEN [totalOriginalLP |-> original,
              originalLPIsSuspicious |-> suspicious,
              lpBurnedPct |-> Cap(IF hasBurns
                                  THEN Pct(onChainBurned(original, current), original)
                                  ELSE 0),
              fallbackNote |-> IF suspicious THEN "API data incomplete" ELSE "none",
              pctNote |-> note]
        ELSE IF burnAddr > 0 /\ current > 0
        THEN [totalOriginalLP |-> original,
              originalLPIsSuspicious |-> suspicious,
              lpBurnedPct |-> Cap(Pct(burnAddr + burnChecked,
                                      current + burnAddr + burnChecked)),
              fallbackNote |-> "Using fallback estimation",
              pctNote |-> note]
        ELSE IF burnAddr > 0
        THEN [totalOriginalLP |-> original,
              originalLPIsSuspicious |-> suspicious,
              lpBurnedPct |-> 999,
              fallbackNote |-> "Using fallback estimation",
              pctNote |-> note]
        ELSE [totalOriginalLP |-> original,
              originalLPIsSuspicious |-> suspicious,
              lpBurnedPct |-> 0,
              fallbackNote |-> "none",
              pctNote |-> note]

\* parseInt(pool.pool_info?.lpSupply || "0", 16) / 1e9, and pool_info?.lpMint
OriginalSupplies == {0, 4, 10, NaN}
CurrentSupplies == {0, 4, 10}
RatioPools == [original : OriginalSupplies, lpMint : BOOLEAN]

\* the events a finished scan has left
ScannedEvents ==
    {<<>>,
     <<[signature |-> 1, type |-> "burnChecked", amount |-> 3, mint |-> 1]>>}

RatioIdle ==
    /\ poolQueue = <<>>
    /\ burnedBurnAddr = 0
    /\ totalOriginalLP = 0
    /\ totalCurrentLP = 0
    /\ originalLPIsSuspicious = FALSE
    /\ lpSafety = 0
    /\ fallbackNote = "none"
    /\ pctNote = ""
    /\ ratioPc = "idle"

\* the scan is over, the loop over the pools begins
RatioInputs ==
    /\ poolQueue \in UNION {[1..n -> RatioPools] : n \in 0..MaxPools}
    /\ burnedBurnAddr \in {0, 2}
    /\ totalOriginalLP = 0
    /\ totalCurrentLP = 0
    /\ originalLPIsSuspicious = FALSE
    /\ lpSafety = 0
    /\ fallbackNote = "none"
    /\ pctNote = ""
    /\ ratioPc = "pools"

\* events come from the history of the LP mint of some pool
RatioScanDone ==
    /\ lpQueue = <<>>
    /\ curMint = 0
    /\ sigQueue = <<>>
    /\ chain = <<>>
    /\ burnCheckedTxs \in ScannedEvents
    /\ burnCheckedTxs # <<>> => \E i \in 1..Len(poolQueue) : poolQueue[i].lpMint
    /\ totalBurnChecked = SumAmount(burnCheckedTxs)
    /\ scanPc = "done"
    /\ scanErrors = {}

\* after the last pool the ratio is worked out, before it the sums are kept
RatioAfterStep(queue, original, current) ==
    IF queue # <<>>
    THEN /\ ratioPc' = "pools"
         /\ totalOriginalLP' = original
         /\ totalCurrentLP' = current
         /\ UNCHANGED <<originalLPIsSuspicious, lpSafety, fallbackNote, pctNote>>
    ELSE LET r == BurnPercentage(original, current, totalBurnChecked,
                                 burnedBurnAddr)
         IN  /\ ratioPc' = "done"
             /\ totalOriginalLP' = r.totalOriginalLP
             /\ totalCurrentLP' = current
             /\ originalLPIsSuspicious' = r.originalLPIsSuspicious
             /\ lpSafety' = r.lpBurnedPct
             /\ fallbackNote' = r.fallbackNote
             /\ pctNote' = r.pctNote

\* the token has no pool: the loop body never runs
NoPoolSupply ==
    /\ ratioPc = "pools" /\ poolQueue = <<>>
    /\ RatioAfterStep(poolQueue, totalOriginalLP, totalCurrentLP)
    /\ UNCHANGED <<poolQueue, burnedBurnAddr, outsideRatio>>

\* connection.getTokenSupply(lpMint) answers
GetTokenSupply ==
    /\ ratioPc = "pools" /\ poolQueue # <<>> /\ Head(poolQueue).lpMint
    /\ \E supply \in CurrentSupplies :
          RatioAfterStep(Tail(poolQueue),
                         Plus(totalOriginalLP, Head(poolQueue).original),
                         totalCurrentLP + supply)
    /\ poolQueue' = Tail(poolQueue)
    /\ UNCHANGED <<burnedBurnAddr, outsideRatio>>

\* it throws ("skip"), or the pool has no lpMint: only the original is added
GetTokenSupplySkipped ==
    /\ ratioPc = "pools" /\ poolQueue # <<>>
    /\ RatioAfterStep(Tail(poolQueue),
                      Plus(totalOriginalLP, Head(poolQueue).original),
                      totalCurrentLP)
    /\ poolQueue' = Tail(poolQueue)
    /\ UNCHANGED <<burnedBurnAddr, outsideRatio>>

(***************************************************************************)
(* The audit as a whole: the stages of main in check-xdex-lp-burn.js v2.5  *)
(* and v2.1, x1-token-audit.js and x1-batch-audit.js, with the pool        *)
(* resolver of each.  An address is a sequence of characters.              *)
(***************************************************************************)
Programs ==
    {"check-xdex-lp-burn v2.5", "check-xdex-lp-burn v2.1", "x1-token-audit",
     "x1-batch-audit"}

TokenA == <<1, 2>>
TokenAB == <<1, 2, 3>>      \* TokenA is a prefix of it
TokenB == <<1>>             \* it is a prefix of TokenA

PoolMatchesFirstOnly(p, token) == p.token1_address = token

\* p => p.token1_address === tokenAddress || p.token2_address === tokenAddress
PoolMatches(p, token) ==
    p.token1_address = token \/ p.token2_address = token

\* x1-batch-audit.js checkPoolForToken
checkPoolForToken(pool, token) ==
    \/ pool.token1_address = token
    \/ pool.token2_address = token
    \/ (pool.tkn0 # Null /\ pool.tkn0.mint = token)
    \/ (pool.tkn1 # Null /\ pool.tkn1.mint = token)
    \/ (pool.mints # Null /\ \E i \in 1..Len(pool.mints) : pool.mints[i] = token)

\* allPools.filter(...)
FilterPools(allPools, token) ==
    SelectSeq(allPools, LAMBDA p : PoolMatches(p, token))

BatchFilterPools(allPools, token) ==
    SelectSeq(allPools, LAMBDA p : checkPoolForToken(p, token))

\* [...new Set(pools.map(p => p.pool_info?.lpMint).filter(Boolean))]
uniqueLpMints(ps) == {ps[i].lpMint : i \in 1..Len(ps)} \ {Null}

\* the entries of pool/list: the pair, the LP mint, and the per-token
\* blocks some entries carry as well
ListedPool(a, b, lp, blocks) ==
    [token1_address |-> a, token2_address |-> b, lpMint |-> lp,
     tkn0 |-> IF blocks THEN [mint |-> a] ELSE Null,
     tkn1 |-> IF blocks THEN [mint |-> b] ELSE Null,
     mints |-> IF blocks THEN <<a, b>> ELSE Null]

ListedPools ==
    {ListedPool(pair[1], pair[2], lp, blocks) :
        pair \in {<<TokenA, TokenAB>>, <<TokenB, TokenA>>, <<TokenAB, TokenB>>},
        lp \in {Null, <<7>>, <<8>>}, blocks \in BOOLEAN}

PoolLists == UNION {[1..n -> ListedPools] : n \in 0..MaxListed}

\* the request fails or the body is not JSON; the body has no data field;
\* data is not an array; data is the list
ProviderAnswers ==
    [kind : {"throws", "no data", "not a list"}, data : {<<>>}]
    \cup [kind : {"list"}, data : PoolLists]

\* getAccountInfo gives an account of 82 bytes or more; gives null; gives a
\* shorter account; throws
MintReads == {"decoded", "missing", "short", "throws"}

AuditIdle ==
    /\ program = "none"
    /\ tokenAddress = Null
    /\ provider = [kind |-> "throws", data |-> <<>>]
    /\ mintRead = "unread"
    /\ tokenPools = <<>>
    /\ scansLeft = 0
    /\ stage = "idle"
    /\ trail = <<>>

AuditInputs ==
    /\ program \in Programs
    /\ tokenAddress = TokenA
    /\ provider \in ProviderAnswers
    /\ mintRead = "unread"
    /\ tokenPools = <<>>
    /\ scansLeft = 0
    /\ stage = "Init"
    /\ trail = <<>>

Completes(name) ==
    /\ stage' = name
    /\ trail' = Append(trail, name)

\* process.exit(1)
Exits ==
    /\ stage' = "Exited 1"
    /\ UNCHANGED <<trail, tokenPools, scansLeft>>

(* check-xdex-lp-burn.js v2.5 *)

\* "Fetch pools first for price calculation"
V25FetchPools ==
    /\ program = "check-xdex-lp-burn v2.5" /\ stage = "Init"
    /\ IF provider.kind \in {"list", "no data"}
       THEN /\ tokenPools' = FilterPools(provider.data, tokenAddress)
            /\ scansLeft' = Cardinality(uniqueLpMints(tokenPools'))
            /\ Completes("ResolvePools")
       ELSE Exits
    /\ UNCHANGED <<program, tokenAddress, provider, mintRead, outsideAudit>>

\* const tokenInfo = await checkTokenAuthorities(connection, mintPubkey)
V25DecodeMint ==
    /\ program = "check-xdex-lp-burn v2.5" /\ stage = "ResolvePools"
    /\ mintRead' \in MintReads
    /\ Completes("DecodeMint")
    /\ UNCHANGED <<program, tokenAddress, provider, tokenPools, scansLeft,
                   outsideAudit>>

\* for (const lpMint of uniqueLpMints): one LP mint's history
V25ScanLpMint ==
    /\ program = "check-xdex-lp-burn v2.5"
    /\ stage \in {"DecodeMint", "ScanBurnsPerPool"}
    /\ scansLeft > 0
    /\ scansLeft' = scansLeft - 1
    /\ Completes("ScanBurnsPerPool")
    /\ UNCHANGED <<program, tokenAddress, provider, mintRead, tokenPools, outsideAudit>>

\* the ratio, then calculateRiskScore and getRiskRating
V25Score ==
    /\ program = "check-xdex-lp-burn v2.5"
    /\ stage \in {"DecodeMint", "ScanBurnsPerPool"}
    /\ scansLeft = 0
    /\ Completes("Score")
    /\ UNCHANGED <<program, tokenAddress, provider, mintRead, tokenPools, scansLeft, outsideAudit>>

\* the summary reads actualBurned, which is not defined (50 <= ratio < 90)
V25ReportThrows ==
    /\ program = "check-xdex-lp-burn v2.5" /\ stage = "Score"
    /\ stage' = "Crashed"
    /\ UNCHANGED <<program, tokenAddress, provider, mintRead, tokenPools, scansLeft, trail,
                   outsideAudit>>

(* check-xdex-lp-burn.js v2.1 *)

V21DecodeMint ==
    /\ program = "check-xdex-lp-burn v2.1" /\ stage = "Init"
    /\ mintRead' \in MintReads
    /\ Completes("DecodeMint")
    /\ UNCHANGED <<program, tokenAddress, provider, tokenPools, scansLeft,
                   outsideAudit>>

\* exit(1) when the list cannot be fetched, exit(0) when no pool matches
V21FetchPools ==
    /\ program = "check-xdex-lp-burn v2.1" /\ stage = "DecodeMint"
    /\ IF provider.kind \in {"list", "no data"}
       THEN /\ tokenPools' = FilterPools(provider.data, tokenAddress)
            /\ scansLeft' = Len(tokenPools')
            /\ trail' = Append(trail, "ResolvePools")
            /\ stage' = IF tokenPools' = <<>> THEN "Exited 0" ELSE "ResolvePools"
       ELSE Exits
    /\ UNCHANGED <<program, tokenAddress, provider, mintRead, outsideAudit>>

\* one pool: its details, checkLPBurnStatus and checkBurnCheckedTxs
V21AnalyzePool ==
    /\ program = "check-xdex-lp-burn v2.1"
    /\ stage \in {"ResolvePools", "ScanBurnsPerPool"}
    /\ scansLeft > 0
    /\ scansLeft' = scansLeft - 1
    /\ Completes("ScanBurnsPerPool")
    /\ UNCHANGED <<program, tokenAddress, provider, mintRead, tokenPools, outsideAudit>>

\* the details cannot be fetched or name no LP mint: the pool is passed over
V21SkipPool ==
    /\ program = "check-xdex-lp-burn v2.1"
    /\ stage \in {"ResolvePools", "ScanBurnsPerPool"}
    /\ scansLeft > 0
    /\ scansLeft' = scansLeft - 1
    /\ UNCHANGED <<program, tokenAddress, provider, mintRead, tokenPools, stage, trail,
                   outsideAudit>>

V21Score ==
    /\ program = "check-xdex-lp-burn v2.1"
    /\ stage \in {"ResolvePools", "ScanBurnsPerPool"}
    /\ scansLeft = 0
    /\ Completes("Score")
    /\ UNCHANGED <<program, tokenAddress, provider, mintRead, tokenPools, scansLeft, outsideAudit>>

(* x1-token-audit.js *)

\* checkMintAccount; exit(1) when the mint is not on chain
TaDecodeMint ==
    /\ program = "x1-token-audit" /\ stage = "Init"
    /\ mintRead' \in MintReads
    /\ IF mintRead' \in {"decoded", "short"}      \* result.exists
       THEN Completes("DecodeMint") /\ UNCHANGED <<tokenPools, scansLeft>>
       ELSE Exits
    /\ UNCHANGED <<program, tokenAddress, provider, outsideAudit>>

\* findXDEXPools: [] on every failure; the first pool's LP mint is checked
\* when getPoolDetails names one
TaFindPools ==
    /\ program = "x1-token-audit" /\ stage = "DecodeMint"
    /\ tokenPools' = IF provider.kind = "list"
                THEN FilterPools(provider.data, tokenAddress) ELSE <<>>
    /\ \E details \in BOOLEAN :
          scansLeft' = IF tokenPools' # <<>> /\ details THEN 1 ELSE 0
    /\ Completes("ResolvePools")
    /\ UNCHANGED <<program, tokenAddress, provider, mintRead, outsideAudit>>

\* checkLPBurnStatus(connection, lpMint)
TaCheckLpBurn ==
    /\ program = "x1-token-audit" /\ stage = "ResolvePools"
    /\ scansLeft > 0
    /\ scansLeft' = scansLeft - 1
    /\ Completes("ScanBurnsPerPool")
    /\ UNCHANGED <<program, tokenAddress, provider, mintRead, tokenPools, outsideAudit>>

TaScore ==
    /\ program = "x1-token-audit"
    /\ stage \in {"ResolvePools", "ScanBurnsPerPool"}
    /\ scansLeft = 0
    /\ Completes("Score")
    /\ UNCHANGED <<program, tokenAddress, provider, mintRead, tokenPools, scansLeft, outsideAudit>>

(* x1-batch-audit.js, one token *)

\* getXDEXPools: the list, or [] when every endpoint fails
BatchGetPools ==
    /\ program = "x1-batch-audit" /\ stage = "Init"
    /\ Completes("FetchPoolList")
    /\ UNCHANGED <<program, tokenAddress, provider, mintRead, tokenPools, scansLeft, outsideAudit>>

\* auditToken: checkTokenAuthorities, then the filter and the score
BatchAuditToken ==
    /\ program = "x1-batch-audit" /\ stage = "FetchPoolList"
    /\ tokenPools' = BatchFilterPools(IF provider.kind = "list" THEN provider.data
                                 ELSE <<>>, tokenAddress)
    /\ mintRead' \in MintReads
    /\ stage' = "Score"
    /\ trail' = trail \o <<"DecodeMint", "ResolvePools", "Score">>
    /\ UNCHANGED <<program, tokenAddress, provider, scansLeft, outsideAudit>>

\* the report is written
Report ==
    /\ stage = "Score"
    /\ Completes("Done")
    /\ UNCHANGED <<program, tokenAddress, provider, mintRead, tokenPools, scansLeft, outsideAudit>>

(***************************************************************************)
(* A batch run of x1-batch-audit.js: batchAudit over a list of tokens.     *)
(* Each token comes with what goes wrong while it is audited.              *)
(***************************************************************************)
\* nothing; new PublicKey(mint) throws; the RPC calls of
\* checkTokenAuthorities throw; getAccountInfo gives no account;
\* createConnection throws
TokenFailures ==
    {"none", "invalid address", "rpc error", "decode failure", "connection"}

BatchTokens ==
    [mint : {TokenA, TokenAB}, failure : {"none"}, revoked : BOOLEAN]
    \cup [mint : {TokenA, TokenAB}, failure : TokenFailures \ {"none"},
          revoked : {FALSE}]

\* the result object auditToken starts from
auditTokenDefaults(mint) ==
    [mint |-> mint, poolCount |-> 0, riskScore |-> 100,
     riskRating |-> "UNKNOWN", error |-> FALSE]

batchAuditCaughtUnnamed(token) ==
    [mint |-> Null, poolCount |-> 0, riskScore |-> 100,
     riskRating |-> "ERROR", error |-> TRUE]

\* the object pushed by the catch of batchAudit
batchAuditCaught(token) ==
    [mint |-> token, poolCount |-> 0, riskScore |-> 100,
     riskRating |-> "ERROR", error |-> TRUE]

\* auditToken(mint, pools), for a call that returns
auditToken(t, allPools) ==
    IF t.failure = "invalid address" THEN auditTokenDefaults(t.mint)
    ELSE LET revoked == t.failure = "none" /\ t.revoked
             found == BatchFilterPools(allPools, t.mint)
             score == batchCalculateRiskScore(
                          [mintAuthorityRevoked |-> revoked,
                           freezeAuthorityRevoked |-> revoked,
                           lpNotBurned |-> TRUE, holderCount |-> 0])
         IN  [mint |-> t.mint, poolCount |-> Len(found), riskScore |-> score,
              riskRating |-> batchRiskRating(score), error |-> FALSE]

BatchIdle ==
    /\ tokens = <<>>
    /\ batchPools = <<>>
    /\ results = <<>>
    /\ batchPc = "idle"

\* parseArgs exits when no token is given
BatchInputs ==
    /\ tokens \in UNION {[1..n -> BatchTokens] : n \in 1..MaxTokens}
    /\ batchPools = <<>>
    /\ results = <<>>
    /\ batchPc = "fetch"

\* const pools = await getXDEXPools()
BatchFetchPools ==
    /\ batchPc = "fetch"
    /\ batchPools' \in {<<>>, <<ListedPool(TokenA, TokenB, <<7>>, TRUE)>>}
    /\ batchPc' = "loop"
    /\ UNCHANGED <<tokens, results, outsideBatch>>

BatchAfterPush(rs) == IF Len(rs) = Len(tokens) THEN "returned" ELSE "loop"

\* const result = await auditToken(token, pools); results.push(result)
BatchAuditReturns ==
    /\ batchPc = "loop"
    /\ LET token == tokens[Len(results) + 1]
       IN  /\ token.failure # "connection"
           /\ results' = Append(results, auditToken(token, batchPools))
    /\ batchPc' = BatchAfterPush(results')
    /\ UNCHANGED <<tokens, batchPools, outsideBatch>>

\* catch (e): results.push({ mint: token, error: e.message, ... })
BatchAuditThrows ==
    /\ batchPc = "loop"
    /\ LET token == tokens[Len(results) + 1]
       IN  /\ token.failure = "connection"
           /\ results' = Append(results, batchAuditCaught(token.mint))
    /\ batchPc' = BatchAfterPush(results')
    /\ UNCHANGED <<tokens, batchPools, outsideBatch>>

(***************************************************************************)
(* checkBurnCheckedTxs(connection, lpMintAddress, limit): the scan of one  *)
(* LP mint to a given history depth.  The chain holds onChain signatures   *)
(* for the mint, numbered newest first.                                    *)
(***************************************************************************)
\* a depth of one more than asked for
SignatureOptionsOneMore(depth) == [limit |-> depth + 1]

\* { limit }
SignatureOptions(depth) == [limit |-> depth]

\* the RPC node answers with the newest signatures, options.limit at most
getSignaturesForAddress(held, options) ==
    [i \in 1..Min(held, options.limit) |-> i]

CheckIdle ==
    /\ limit = 0
    /\ onChain = 0
    /\ signatures = <<>>
    /\ lookups = 0
    /\ burnsFound = <<>>
    /\ checkPc = "idle"

CheckInputs ==
    /\ limit \in 1..MaxLimit
    /\ onChain \in 0..(MaxLimit + 1)
    /\ signatures = <<>>
    /\ lookups = 0
    /\ burnsFound = <<>>
    /\ checkPc = "history"

CheckAfterStep(sigs) == IF sigs = <<>> THEN "returned" ELSE "loop"

\* const signatures = await connection.getSignaturesForAddress(..., { limit })
CheckGetSignatures ==
    /\ checkPc = "history"
    /\ signatures' = getSignaturesForAddress(onChain, SignatureOptions(limit))
    /\ checkPc' = CheckAfterStep(signatures')
    /\ UNCHANGED <<limit, onChain, lookups, burnsFound, outsideCheck>>

\* it throws: "Error checking burn txs", return burns
CheckGetSignaturesFails ==
    /\ checkPc = "history"
    /\ checkPc' = "returned"
    /\ UNCHANGED <<limit, onChain, signatures, lookups, burnsFound, outsideCheck>>

\* getParsedTransaction answers with a transaction, with or without a burn
CheckLookup ==
    /\ checkPc = "loop"
    /\ lookups' = lookups + 1
    /\ \E amount \in {0, 2, 3} :      \* 0: no burn instruction in it
          burnsFound' = IF amount > 0
                        THEN Append(burnsFound, [signature |-> Head(signatures),
                                                 amount |-> amount])
                        ELSE burnsFound
    /\ signatures' = Tail(signatures)
    /\ checkPc' = CheckAfterStep(signatures')
    /\ UNCHANGED <<limit, onChain, outsideCheck>>

\* it answers null (continue) or throws (catch: skip)
CheckLookupFails ==
    /\ checkPc = "loop"
    /\ lookups' = lookups + 1
    /\ signatures' = Tail(signatures)
    /\ checkPc' = CheckAfterStep(signatures')
    /\ UNCHANGED <<limit, onChain, burnsFound, outsideCheck>>

(***************************************************************************)
(* checkLPBurnStatus as main calls it: the balances that the largest       *)
(* accounts of a mint hold at burn addresses.  v2.5 calls it once, v2.1    *)
(* for the LP mint of the pool.                                            *)
(***************************************************************************)
\* getParsedAccountInfo of a largest account: its owner and balance, or
\* nothing readable
HolderAccounts ==
    {[owner |-> "1nc1nerator11111111111111111111111111111111", amount |-> 2,
      readable |-> TRUE],
     [owner |-> "1nc1nerator11111111111111111111111111111111", amount |-> 3,
      readable |-> TRUE],
     [owner |-> "1nc1nerator11111111111111111111111111111111", amount |-> 3,
      readable |-> FALSE],
     [owner |-> "Holder", amount |-> 5, readable |-> TRUE]}

AccountLists == UNION {[1..n -> HolderAccounts] : n \in 0..MaxAccounts}

\* checkLPBurnStatus(connection, tokenAddress) in v2.5,
\* checkLPBurnStatus(connection, lpMint) in v2.1
StatusArgument(by) ==
    IF by = "check-xdex-lp-burn v2.5" THEN "tokenAddress" ELSE "lpMint"

StatusIdle ==
    /\ caller = "none"
    /\ holdersOf = [tokenAddress |-> <<>>, lpMint |-> <<>>]
    /\ statusArg = "none"
    /\ accountQueue = <<>>
    /\ burnedAmount = 0
    /\ statusPc = "idle"

StatusInputs ==
    /\ caller \in {"check-xdex-lp-burn v2.5", "check-xdex-lp-burn v2.1"}
    /\ holdersOf \in [tokenAddress : AccountLists, lpMint : AccountLists]
    /\ statusArg = "none"
    /\ accountQueue = <<>>
    /\ burnedAmount = 0
    /\ statusPc = "call"

StatusAfterStep(queue) == IF queue = <<>> THEN "done" ELSE "accounts"

\* getAccountInfo, then getTokenLargestAccounts of the mint passed
StatusLargestAccounts ==
    /\ statusPc = "call"
    /\ statusArg' = StatusArgument(caller)
    /\ accountQueue' = holdersOf[statusArg']
    /\ statusPc' = StatusAfterStep(accountQueue')
    /\ UNCHANGED <<caller, holdersOf, burnedAmount, outsideStatus>>

\* one of them throws: "Error checking LP burn", the zero result is returned
StatusCallFails ==
    /\ statusPc = "call"
    /\ statusArg' = StatusArgument(caller)
    /\ statusPc' = "failed"
    /\ UNCHANGED <<caller, holdersOf, accountQueue, burnedAmount, outsideStatus>>

\* getParsedAccountInfo(account.address): if (isBurn) result.burnedAmount += amount
StatusAccount ==
    /\ statusPc = "accounts"
    /\ Head(accountQueue).readable
    /\ burnedAmount' = IF Head(accountQueue).owner \in BURN_ADDRESSES
                       THEN burnedAmount + Head(accountQueue).amount
                       ELSE burnedAmount
    /\ accountQueue' = Tail(accountQueue)
    /\ statusPc' = StatusAfterStep(accountQueue')
    /\ UNCHANGED <<caller, holdersOf, statusArg, outsideStatus>>

\* no value, no parsed info, or a throw: the account is skipped
StatusAccountSkipped ==
    /\ statusPc = "accounts"
    /\ ~Head(accountQueue).readable
    /\ accountQueue' = Tail(accountQueue)
    /\ statusPc' = StatusAfterStep(accountQueue')
    /\ UNCHANGED <<caller, holdersOf, statusArg, burnedAmount, outsideStatus>>

(***************************************************************************)
(* telegram-bot.js polling: the getUpdates loop.  Telegram numbers the     *)
(* updates 1, 2, ... and answers getUpdates with updates, oldest first,    *)
(* whose update_id is at least the offset asked for.                       *)
(***************************************************************************)
PollIdle ==
    /\ offset = 0
    /\ arrived = 0
    /\ response = <<>>
    /\ handled = [u \in 1..MaxUpdates |-> 0]
    /\ handlerErrors = {}
    /\ pollPc = "idle"

\* let offset = 0, before the first pass of while (true)
PollInputs ==
    /\ offset = 0
    /\ arrived = 0
    /\ response = <<>>
    /\ handled = [u \in 1..MaxUpdates |-> 0]
    /\ handlerErrors = {}
    /\ pollPc = "poll"

\* the updates that a call with ?offset=from can be answered with
Unconfirmed(from, sent) ==
    [i \in 1..(IF from > sent THEN 0
               ELSE sent - (IF from < 1 THEN 1 ELSE from) + 1)
        |-> (IF from < 1 THEN 1 ELSE from) + i - 1]

\* an offset that stays on the update being handled
NextOffsetSame(update) == update

\* offset = update.update_id + 1
NextOffset(update) == update + 1

PollAfterUpdate(rest) == IF rest = <<>> THEN "poll" ELSE "advance"

\* a user sends the bot a message
UpdateArrives ==
    /\ pollPc # "idle"
    /\ arrived < MaxUpdates
    /\ arrived' = arrived + 1
    /\ UNCHANGED <<offset, response, handled, handlerErrors, pollPc, outsidePoll>>

\* getUpdates answers ok with a (possibly empty) list of updates
PollGetUpdates ==
    /\ pollPc = "poll"
    /\ \E k \in 0..Len(Unconfirmed(offset, arrived)) :
          /\ response' = SubSeq(Unconfirmed(offset, arrived), 1, k)
          /\ pollPc' = PollAfterUpdate(response')
    /\ UNCHANGED <<offset, arrived, handled, handlerErrors, outsidePoll>>

\* getUpdates answers without ok or without a result: the loop goes round
PollGetUpdatesNotOk ==
    /\ pollPc = "poll"
    /\ UNCHANGED <<pollVars, outsidePoll>>

\* fetchJSON rejects: 'Polling error' is logged and the loop sleeps 5 s
PollGetUpdatesFails ==
    /\ pollPc = "poll"
    /\ pollPc' = "wait"
    /\ UNCHANGED <<offset, arrived, response, handled, handlerErrors, outsidePoll>>

\* the sleep is over
PollRetry ==
    /\ pollPc = "wait"
    /\ pollPc' = "poll"
    /\ UNCHANGED <<offset, arrived, response, handled, handlerErrors, outsidePoll>>

\* for (const update of response.result) { offset = update.update_id + 1
PollAdvance ==
    /\ pollPc = "advance"
    /\ offset' = NextOffset(Head(response))
    /\ pollPc' = "handle"
    /\ UNCHANGED <<arrived, response, handled, handlerErrors, outsidePoll>>

\* await handleUpdate(update) returns
PollHandleUpdate ==
    /\ pollPc = "handle"
    /\ handled' = [handled EXCEPT ![Head(response)] = @ + 1]
    /\ response' = Tail(response)
    /\ pollPc' = PollAfterUpdate(response')
    /\ UNCHANGED <<offset, arrived, handlerErrors, outsidePoll>>

\* await handleUpdate(update) throws: 'Error handling update' is logged
PollHandleUpdateThrows ==
    /\ pollPc = "handle"
    /\ handled' = [handled EXCEPT ![Head(response)] = @ + 1]
    /\ handlerErrors' = handlerErrors \cup {Head(response)}
    /\ response' = Tail(response)
    /\ pollPc' = PollAfterUpdate(response')
    /\ UNCHANGED <<offset, arrived, outsidePoll>>

(***************************************************************************)
(* telegram-bot.js: the audit history.  An entry is told from the others   *)
(* by its timestamp; the entries found in the file at start-up carry the   *)
(* timestamps up to 0, the audits of this run 1, 2, ...                    *)
(***************************************************************************)
maxHistory == 50

\* the array of len entries that audit-history.json holds
FileEntries(len) ==
    [i \in 1..len |-> [timestamp |-> i - len, riskRating |-> "LOW"]]

\* what can be found in audit-history.json at start-up
HistoryFiles ==
    {[kind |-> "missing", entries |-> <<>>],
     [kind |-> "unreadable", entries |-> <<>>]}
        \cup {[kind |-> "list", entries |-> FileEntries(len)] :
                 len \in 0..(maxHistory + MaxOver)}

HistoryIdle ==
    /\ auditHistory = <<>>
    /\ historyFile = [kind |-> "missing", entries |-> <<>>]
    /\ clock = 0
    /\ completedAudits = <<>>
    /\ historyPc = "idle"

\* let auditHistory = [], before main calls loadHistory
HistoryInputs ==
    /\ auditHistory = <<>>
    /\ historyFile \in HistoryFiles
    /\ clock = 0
    /\ completedAudits = <<>>
    /\ historyPc = "start"

\* the first maxHistory entries instead of the last
saveHistoryFirst(entries) ==
    SubSeq(entries, 1,
           IF Len(entries) > maxHistory THEN maxHistory ELSE Len(entries))

\* saveHistory: auditHistory = auditHistory.slice(-CONFIG.maxHistory)
saveHistory(entries) ==
    SubSeq(entries,
           IF Len(entries) > maxHistory THEN Len(entries) - maxHistory + 1 ELSE 1,
           Len(entries))

\* loadHistory: the file's array, or [] kept when there is no file or
\* JSON.parse throws
loadHistory ==
    /\ historyPc = "start"
    /\ auditHistory' = IF historyFile.kind = "list" THEN historyFile.entries
                       ELSE auditHistory
    /\ completedAudits' = auditHistory'
    /\ historyPc' = "ready"
    /\ UNCHANGED <<historyFile, clock, outsideHistory>>

\* runFullAudit reaches auditHistory.push(...); saveHistory() writes the file
RunFullAuditSaved ==
    /\ historyPc \in {"ready", "audited"}
    /\ clock < MaxAudits
    /\ clock' = clock + 1
    /\ \E rating \in {"LOW", "MEDIUM", "HIGH"} :
          LET entry == [timestamp |-> clock', riskRating |-> rating]
          IN  /\ auditHistory' = saveHistory(Append(auditHistory, entry))
              /\ completedAudits' = Append(completedAudits, entry)
    /\ historyFile' = [kind |-> "list", entries |-> auditHistory']
    /\ historyPc' = "audited"
    /\ UNCHANGED outsideHistory

\* the same, but writeFileSync throws after the slice: 'Failed to save history'
RunFullAuditSaveFails ==
    /\ historyPc \in {"ready", "audited"}
    /\ clock < MaxAudits
    /\ clock' = clock + 1
    /\ \E rating \in {"LOW", "MEDIUM", "HIGH"} :
          LET entry == [timestamp |-> clock', riskRating |-> rating]
          IN  /\ auditHistory' = saveHistory(Append(auditHistory, entry))
              /\ completedAudits' = Append(completedAudits, entry)
    /\ historyPc' = "audited"
    /\ UNCHANGED <<historyFile, outsideHistory>>

\* runFullAudit throws before the push: the catch edits the message
RunFullAuditFails ==
    /\ historyPc \in {"ready", "audited"}
    /\ clock < MaxAudits
    /\ clock' = clock + 1
    /\ historyPc' = "ready"
    /\ UNCHANGED <<auditHistory, historyFile, completedAudits, outsideHistory>>

\* the bot is started again: let auditHistory = [] and main runs again
BotRestarts ==
    /\ historyPc \in {"ready", "audited"}
    /\ auditHistory' = <<>>
    /\ completedAudits' = <<>>
    /\ historyPc' = "start"
    /\ UNCHANGED <<historyFile, clock, outsideHistory>>

(***************************************************************************)
(* Specifications.                                                         *)
(***************************************************************************)
DecodeInit == DecoderInputs /\ ScoreIdle /\ ScanIdle /\ InitialIdle /\ RatioIdle /\ AuditIdle /\ BatchIdle /\ CheckIdle /\ StatusIdle /\ PollIdle /\ HistoryIdle

DecodeNext == DecodeMint

DecodeSpec == DecodeInit /\ [][DecodeNext]_vars

ScoreInit == ScoreInputs /\ DecoderIdle /\ ScanIdle /\ InitialIdle /\ RatioIdle /\ AuditIdle /\ BatchIdle /\ CheckIdle /\ StatusIdle /\ PollIdle /\ HistoryIdle

ScoreNext ==
    \/ LpBurnScore
    \/ LpBurnExit
    \/ TokenAuditScore
    \/ TokenAuditExit
    \/ BatchScore
    \/ BatchAuditFailed
    \/ ExportScore
    \/ TelegramScore

ScoreSpec == ScoreInit /\ [][ScoreNext]_vars

ScanInit == ScanInputs /\ DecoderIdle /\ ScoreIdle /\ InitialIdle /\ RatioIdle /\ AuditIdle /\ BatchIdle /\ CheckIdle /\ StatusIdle /\ PollIdle /\ HistoryIdle

ScanNext ==
    \/ GetSignatures
    \/ GetSignaturesFails
    \/ GetParsedTransaction
    \/ GetParsedTransactionFails

ScanSpec == ScanInit /\ [][ScanNext]_vars

InitialInit == InitialInputs /\ DecoderIdle /\ ScoreIdle /\ ScanIdle /\ RatioIdle /\ AuditIdle /\ BatchIdle /\ CheckIdle /\ StatusIdle /\ PollIdle /\ HistoryIdle

InitialNext ==
    \/ InitialGetSignatures
    \/ InitialGetParsedTransaction
    \/ InitialGetParsedTransactionFails

InitialSpec == InitialInit /\ [][InitialNext]_vars

RatioInit ==
    /\ RatioInputs /\ RatioScanDone
    /\ DecoderIdle /\ ScoreIdle /\ InitialIdle /\ AuditIdle /\ BatchIdle /\ CheckIdle /\ StatusIdle /\ PollIdle /\ HistoryIdle

RatioNext ==
    \/ NoPoolSupply
    \/ GetTokenSupply
    \/ GetTokenSupplySkipped

RatioSpec == RatioInit /\ [][RatioNext]_vars

AuditInit ==
    /\ AuditInputs
    /\ DecoderIdle /\ ScoreIdle /\ ScanIdle /\ InitialIdle /\ RatioIdle /\ BatchIdle /\ CheckIdle /\ StatusIdle /\ PollIdle /\ HistoryIdle

AuditNext ==
    \/ V25FetchPools
    \/ V25DecodeMint
    \/ V25ScanLpMint
    \/ V25Score
    \/ V25ReportThrows
    \/ V21DecodeMint
    \/ V21FetchPools
    \/ V21AnalyzePool
    \/ V21SkipPool
    \/ V21Score
    \/ TaDecodeMint
    \/ TaFindPools
    \/ TaCheckLpBurn
    \/ TaScore
    \/ BatchGetPools
    \/ BatchAuditToken
    \/ Report

AuditSpec == AuditInit /\ [][AuditNext]_vars

BatchInit ==
    /\ BatchInputs
    /\ DecoderIdle /\ ScoreIdle /\ ScanIdle /\ InitialIdle /\ RatioIdle
    /\ AuditIdle /\ CheckIdle /\ StatusIdle /\ PollIdle /\ HistoryIdle

BatchNext ==
    \/ BatchFetchPools
    \/ BatchAuditReturns
    \/ BatchAuditThrows

BatchSpec == BatchInit /\ [][BatchNext]_vars

CheckInit ==
    /\ CheckInputs
    /\ DecoderIdle /\ ScoreIdle /\ ScanIdle /\ InitialIdle /\ RatioIdle
    /\ AuditIdle /\ BatchIdle /\ StatusIdle /\ PollIdle /\ HistoryIdle

CheckNext ==
    \/ CheckGetSignatures
    \/ CheckGetSignaturesFails
    \/ CheckLookup
    \/ CheckLookupFails

StatusInit ==
    /\ StatusInputs
    /\ DecoderIdle /\ ScoreIdle /\ ScanIdle /\ InitialIdle /\ RatioIdle
    /\ AuditIdle /\ BatchIdle /\ CheckIdle /\ PollIdle /\ HistoryIdle

StatusNext ==
    \/ StatusLargestAccounts
    \/ StatusCallFails
    \/ StatusAccount
    \/ StatusAccountSkipped

StatusSpec == StatusInit /\ [][StatusNext]_vars

PollInit ==
    /\ PollInputs
    /\ DecoderIdle /\ ScoreIdle /\ ScanIdle /\ InitialIdle /\ RatioIdle
    /\ AuditIdle /\ BatchIdle /\ CheckIdle /\ StatusIdle /\ HistoryIdle

PollNext ==
    \/ UpdateArrives
    \/ PollGetUpdates
    \/ PollGetUpdatesNotOk
    \/ PollGetUpdatesFails
    \/ PollRetry
    \/ PollAdvance
    \/ PollHandleUpdate
    \/ PollHandleUpdateThrows

PollSpec == PollInit /\ [][PollNext]_vars

HistoryInit ==
    /\ HistoryInputs
    /\ DecoderIdle /\ ScoreIdle /\ ScanIdle /\ InitialIdle /\ RatioIdle
    /\ AuditIdle /\ BatchIdle /\ CheckIdle /\ StatusIdle /\ PollIdle

HistoryNext ==
    \/ loadHistory
    \/ RunFullAuditSaved
    \/ RunFullAuditSaveFails
    \/ RunFullAuditFails
    \/ BotRestarts

HistorySpec == HistoryInit /\ [][HistoryNext]_vars

\* every RPC call made is answered or fails, so a step that can be taken is
\* taken
CheckSpec == CheckInit /\ [][CheckNext]_vars /\ WF_vars(CheckNext)

(***************************************************************************)
(* Properties of the mint decoder (checked under DecodeSpec).              *)
(***************************************************************************)
Decoded == outcome # "none" /\ rpc = "ok"

\* high32 * 2^32 + low32 of bytes [36:44), as a 65-bit integer
ExactSupply(buf) == BytesToBits(SubSeq(buf, 37, 44)) \o <<0>>

\* C1: for every account of at least 82 bytes the decoder returns
\* rawSupply = high32 * 2^32 + low32 exactly, and decimals = byte [44].
C1_SupplyAndDecimalsExact ==
    (Decoded /\ Len(data) >= MintLen) =>
        /\ result.supply = ExactSupply(data)
        /\ result.decimals = data[45]

\* C2: the decoder returns a descriptor for every input of length >= 82 and
\* fails (MalformedAccount) for every input shorter than 82 bytes.
C2_TotalOnLongFailsOnShort ==
    Decoded =>
        /\ (Len(data) >= MintLen => outcome = "returned")
        /\ (Len(data) < MintLen => outcome = "thrown")

\* C3: in every returned descriptor an authority is present exactly when its
\* discriminant is 1 and revoked otherwise, and no returned descriptor has
\* an authority that is both null and not marked revoked.
C3_PresentOrRevoked ==
    outcome = "returned" =>
        /\ (rpc = "ok" /\ Len(data) >= MintLen) =>
              /\ (result.mintAuthority # Null) = (SubSeq(data, 1, 4) = <<1, 0, 0, 0>>)
              /\ result.mintAuthorityRevoked = (SubSeq(data, 1, 4) # <<1, 0, 0, 0>>)
              /\ (result.freezeAuthority # Null) = (SubSeq(data, 47, 50) = <<1, 0, 0, 0>>)
              /\ result.freezeAuthorityRevoked = (SubSeq(data, 47, 50) # <<1, 0, 0, 0>>)
        /\ ~(result.mintAuthority = Null /\ ~result.mintAuthorityRevoked)
        /\ ~(result.freezeAuthority = Null /\ ~result.freezeAuthorityRevoked)

Scored(s) == pc = "scored" /\ script = s

\* the share of the five largest holders, in tenths of a percent
Top5Pct(hs) ==
    LET n == IF Len(hs) < 5 THEN Len(hs) ELSE 5
    IN  SumPct([i \in 1..n |-> hs[i]])

\* C5: the score of calculateRiskScore is +30 for an active mint authority,
\* +20 for an active freeze authority, the burn band term (>= 90: 0,
\* >= 50: 5, >= 25: 10, >= 10: 15, else 25) and the concentration term
\* (top-5 > 50%: 20, > 30%: 10, else 0), clamped to [0,100].
C5_ScoreIsWeightedSum ==
    Scored("lp-burn") =>
        LET p == audit.burnStatus.burnPercentage
            c == Top5Pct(audit.holderData.topHolders)
            sum == (IF audit.tokenInfo.mintAuthorityRevoked THEN 0 ELSE 30)
                 + (IF audit.tokenInfo.freezeAuthorityRevoked THEN 0 ELSE 20)
                 + (CASE p >= 900 -> 0
                      [] p >= 500 /\ p < 900 -> 5
                      [] p >= 250 /\ p < 500 -> 10
                      [] p >= 100 /\ p < 250 -> 15
                      [] p < 100 -> 25)
                 + (CASE c > 500 -> 20
                      [] c > 300 /\ c <= 500 -> 10
                      [] c <= 300 -> 0)
        IN  riskScore = (IF sum > 100 THEN 100 ELSE IF sum < 0 THEN 0 ELSE sum)

\* ratio 90.0 (destroyed 900 of 1000), six holders of 10% each, mint active
C5_Witness ==
    /\ Scored("lp-burn")
    /\ audit.burnStatus.burnPercentage = (1000 * 900) \div (900 + 100)
    /\ Len(audit.holderData.topHolders) = 6
    /\ ~audit.tokenInfo.mintAuthorityRevoked
    /\ audit.tokenInfo.freezeAuthorityRevoked
    /\ riskScore = 40

\* C6: whatever the signals and the audit outcome, a reported risk score is
\* an integer in [0,100].
C6_ScoreInRange == pc = "scored" => riskScore \in 0..100

C6_Witness ==
    /\ Scored("token-audit")
    /\ riskScore = 100
    /\ audit.pools > 0

\* C7: getRiskRating gives LOW for 0..24, MEDIUM for 25..49, HIGH for 50..75
\* and CRITICAL for 76..100.
C7_RatingBoundaries ==
    Scored("lp-burn") =>
        riskRating = (CASE riskScore \in 0..24 -> "LOW"
                        [] riskScore \in 25..49 -> "MEDIUM"
                        [] riskScore \in 50..75 -> "HIGH"
                        [] riskScore \in 76..100 -> "CRITICAL")

\* the burn band of a ratio: the number of band thresholds it has reached
BandOf(p) == Cardinality({t \in {100, 250, 500, 900} : p >= t})

\* C8: with the other inputs fixed, a burn ratio in a higher band never
\* gives a higher score, and revoking the mint or the freeze authority
\* never gives a higher score.
C8_Monotonic ==
    Scored("lp-burn") =>
        /\ \A p \in BurnPcts :
              BandOf(p) > BandOf(audit.burnStatus.burnPercentage) =>
                 calculateRiskScore(audit.tokenInfo, [burnPercentage |-> p],
                                    audit.holderData, audit.poolsCount) <= riskScore
        /\ calculateRiskScore([audit.tokenInfo EXCEPT !.mintAuthorityRevoked = TRUE],
                              audit.burnStatus, audit.holderData,
                              audit.poolsCount) <= riskScore
        /\ calculateRiskScore([audit.tokenInfo EXCEPT !.freezeAuthorityRevoked = TRUE],
                              audit.burnStatus, audit.holderData,
                              audit.poolsCount) <= riskScore

C8_Witness ==
    /\ Scored("lp-burn")
    /\ audit.burnStatus.burnPercentage = 99
    /\ ~audit.tokenInfo.mintAuthorityRevoked
    /\ ~audit.tokenInfo.freezeAuthorityRevoked
    /\ riskScore = 95

\* C9: the batch and export scorers add 30 exactly when the mint authority
\* is active and 20 exactly when the freeze authority is active.
C9_ActiveAuthorityAdds ==
    ((Scored("batch") /\ audit.validMint) \/ Scored("export")) =>
        LET others == (IF audit.lpNotBurned THEN 25 ELSE 0)
                    + (IF audit.holderCount > 1000 THEN 10
                       ELSE IF audit.holderCount > 0 THEN 20 ELSE 0)
        IN  riskScore - others =
                (IF ~audit.mintAuthorityRevoked THEN 30 ELSE 0)
              + (IF ~audit.freezeAuthorityRevoked THEN 20 ELSE 0)

(***************************************************************************)
(* Properties of the burn scan (checked under ScanSpec).                   *)
(***************************************************************************)
\* the detection method that produced an event
MethodOf(event) ==
    IF IsBurnType(event.type) THEN "explicit-burn" ELSE "close-account"

\* C10: no two events of the list a scan produces share the same
\* (signature, method) pair.
C10_UniqueSignatureMethod ==
    \A i, j \in 1..Len(burnCheckedTxs) :
        i # j => <<burnCheckedTxs[i].signature, MethodOf(burnCheckedTxs[i])>>
               # <<burnCheckedTxs[j].signature, MethodOf(burnCheckedTxs[j])>>

\* the step fetches a transaction, recorded in chain, and scans it
StepScans ==
    /\ scanPc = "sigs"
    /\ Head(sigQueue) \in DOMAIN chain'
    /\ burnCheckedTxs' = ScanTransaction(burnCheckedTxs, chain'[Head(sigQueue)],
                                         Head(sigQueue), curMint)

\* C12: applying the detection methods a second time to a transaction,
\* merging into the events already collected, leaves the event list and
\* the destroyed total unchanged.
C12_MergeIdempotent ==
    [][StepScans =>
          LET again == ScanTransaction(burnCheckedTxs', chain'[Head(sigQueue)],
                                       Head(sigQueue), curMint)
          IN  /\ again = burnCheckedTxs'
              /\ SumAmount(again) = SumAmount(burnCheckedTxs')]_vars

EventSet(events) == {events[i] : i \in 1..Len(events)}

Reverse(seq) == [i \in 1..Len(seq) |-> seq[Len(seq) + 1 - i]]

\* the close-account method run before the explicit-burn method
CloseFirst(events, tx, sig, lpMint) ==
    LET afterClose == IF tx.meta # Null
                      THEN Method2(events, tx.meta.pre, tx, sig, lpMint)
                      ELSE events
    IN  Method1(afterClose, tx.instructions, sig, lpMint)

\* the balance entries of the transaction visited last to first
BalancesBackwards(events, tx, sig, lpMint) ==
    ScanTransaction(events,
                    IF tx.meta # Null
                    THEN [tx EXCEPT !.meta.pre = Reverse(tx.meta.pre)] ELSE tx,
                    sig, lpMint)

\* C13: the events and the destroyed total a transaction leaves are the
\* same whatever order the detection methods run in and whatever order its
\* balance entries are visited in.
C13_OrderIndependent ==
    [][StepScans =>
          LET tx == chain'[Head(sigQueue)]
              swapped == CloseFirst(burnCheckedTxs, tx, Head(sigQueue), curMint)
              backwards == BalancesBackwards(burnCheckedTxs, tx, Head(sigQueue),
                                             curMint)
          IN  /\ EventSet(swapped) = EventSet(burnCheckedTxs')
              /\ SumAmount(swapped) = SumAmount(burnCheckedTxs')
              /\ EventSet(backwards) = EventSet(burnCheckedTxs')
              /\ SumAmount(backwards) = SumAmount(burnCheckedTxs')]_vars

\* what the rest of the audit receives from the scan
BurnSummary == [events |-> burnCheckedTxs, destroyed |-> totalBurnChecked]

\* the summary of a scan that reached every history and found no burn
NothingFound == [events |-> <<>>, destroyed |-> 0]

\* the signature list of every LP mint was unreachable
ScanWideFailure == scanPc = "done" /\ curMint > 0 /\ scanErrors = 1..curMint

\* C17: a scan whose signature lists were all unreachable ends with no
\* event and a summary marked as unavailable, that is, one that differs
\* from the summary of a scan that found nothing.  (That a failed lookup is
\* skipped and the scan goes on is what GetParsedTransactionFails and
\* GetSignaturesFails do.)
C17_FailuresAbsorbed ==
    ScanWideFailure => (burnCheckedTxs = <<>> /\ BurnSummary # NothingFound)

(***************************************************************************)
(* Properties of the initial-LP-burn history (checked under InitialSpec).  *)
(***************************************************************************)
\* what the events of the other signatures add up to
OtherSignatures(sig) == SumAmount(SelectSeq(burnEvents, LAMBDA e : e.tx # sig))

\* the explicit-burn and the transfer-to-sink method both fired on sig, for amt
BothFire(sig, amt) ==
    SelectSeq(burnEvents, LAMBDA e : e.tx = sig) \in
        {<<[amount |-> amt, type |-> a, tx |-> sig],
           [amount |-> amt, type |-> b, tx |-> sig]>> :
            <<a, b>> \in {<<"Direct Burn", "Transfer to Incinerator">>,
                          <<"Transfer to Incinerator", "Direct Burn">>}}

\* C11: when the explicit-burn and the transfer-to-sink method both fire on
\* one signature for the same amount, the destroyed total counts that
\* signature's amount once.
C11_CountedOnce ==
    initialPc = "done" =>
        \A sig \in SigIds, amt \in 1..5 :
            BothFire(sig, amt) => totalBurned - OtherSignatures(sig) = amt

(***************************************************************************)
(* Properties of the burn ratio (checked under RatioSpec).                 *)
(***************************************************************************)
\* the original LP supply as the pool-metadata provider reported it
ApiOriginal == IF originalLPIsSuspicious THEN 0 ELSE totalOriginalLP

\* detected burn events plus sink holdings
Destroyed == totalBurnChecked + burnedBurnAddr

\* C14: when the provider reports a non-zero original LP supply, the ratio
\* used for scoring is 100 * destroyed / original, capped at 99.9.
C14_RatioIsDestroyedOverOriginal ==
    (ratioPc = "done" /\ Positive(ApiOriginal)) =>
        lpSafety = Cap(Pct(Destroyed, ApiOriginal))

\* C15: when the provider's original LP supply is absent or zero (and
\* something was destroyed), the ratio is destroyed over current-circulating
\* + destroyed and the summary line carries the estimated mark.
C15_EstimatedIsMarked ==
    (ratioPc = "done" /\ ~Positive(ApiOriginal) /\ Destroyed > 0) =>
        /\ lpSafety = Cap(Pct(Destroyed, totalCurrentLP + Destroyed))
        /\ pctNote = " (est.)"

\* the ratio was not worked out from the provider's original supply
DerivedByEstimation == originalLPIsSuspicious \/ fallbackNote # "none"

\* C16: the ratio is within 0..100 and does not exceed 99.9 when it was
\* derived by estimation.
C16_RatioInRange ==
    ratioPc = "done" =>
        /\ lpSafety \in 0..1000
        /\ DerivedByEstimation => lpSafety <= 999

\* original estimated as 4 + 3 + 2: five ninths destroyed
C16_Witness ==
    /\ ratioPc = "done"
    /\ originalLPIsSuspicious
    /\ totalCurrentLP = 4
    /\ Destroyed = 5
    /\ lpSafety = 555


(***************************************************************************)
(* Claims about the audit as a whole.                                      *)
(***************************************************************************)
Resolved == \E i \in 1..Len(trail) : trail[i] = "ResolvePools"

Listed == provider.data

\* the places of the provider's list whose pair holds the token
OnEitherSide ==
    {i \in 1..Len(Listed) :
        \/ Listed[i].token1_address = tokenAddress
        \/ Listed[i].token2_address = tokenAddress}

\* the k-th of them, in the provider's order
KthPlace(k) ==
    CHOOSE i \in OnEitherSide : Cardinality({j \in OnEitherSide : j < i}) = k - 1

ResolverActs == V25FetchPools \/ V21FetchPools \/ TaFindPools \/ BatchAuditToken

ProviderFails == provider.kind \in {"throws", "not a list"}

\* C19: when the provider's request fails or its answer is not a list, the
\* step that resolves the pools leaves zero pools and the audit running; it
\* never ends the audit.
C19_ProviderFailureIsZeroPools ==
    [][(ResolverActs /\ ProviderFails) =>
          (tokenPools' = <<>> /\ stage' \notin {"Exited 0", "Exited 1"})]_vars

StageRank(name) ==
    CASE name = "DecodeMint" -> 1
      [] name = "ResolvePools" -> 2
      [] name = "ScanBurnsPerPool" -> 3
      [] name = "Score" -> 4
      [] name = "Done" -> 5
      [] OTHER -> 0

SingleToken == program # "x1-batch-audit"

\* C20: in a single-token audit the stages completed so far are in the
\* order DecodeMint, ResolvePools, ScanBurnsPerPool (any number), Score,
\* Done: no stage is completed after a later one.
C20_StageOrder ==
    SingleToken =>
        \A i, j \in 1..Len(trail) :
            i < j => StageRank(trail[i]) <= StageRank(trail[j])

HasScore == \E i \in 1..Len(trail) : trail[i] = "Score"

\* C21: when the mint account is missing, cannot be read or is too short
\* to decode, the audit of that token never computes a score or a rating.
C21_NoScoreWithoutMint ==
    mintRead \in {"missing", "short", "throws"} => ~HasScore

(***************************************************************************)
(* Claims about the batch run.                                             *)
(***************************************************************************)
\* C22: whatever goes wrong with single tokens, the results pushed so far
\* are one per token audited, result i carrying the mint of token i, and
\* the run returns exactly as many results as it was given tokens.
C22_OneResultPerToken ==
    /\ Len(results) <= Len(tokens)
    /\ \A i \in 1..Len(results) : results[i].mint = tokens[i].mint
    /\ batchPc = "returned" => Len(results) = Len(tokens)

\* three tokens: the first cannot get a connection, the second has an
\* invalid address, the third is audited
C22_Witness ==
    /\ batchPc = "returned"
    /\ Len(tokens) = 3
    /\ tokens[1].failure = "connection" /\ results[1].riskRating = "ERROR"
    /\ tokens[2].failure = "invalid address"
    /\ results[2].riskRating = "UNKNOWN"
    /\ tokens[3].failure = "none" /\ tokens[3].revoked
    /\ results[3].riskScore = 75

(***************************************************************************)
(* Claims about the score of a token without pools.                        *)
(***************************************************************************)
ZeroPools ==
    \/ script = "lp-burn" /\ audit.poolsCount = 0
    \/ script = "token-audit" /\ audit.pools = 0

AuthorityPoints(flags) ==
    (IF flags.mintAuthorityRevoked THEN 0 ELSE 30)
  + (IF flags.freezeAuthorityRevoked THEN 0 ELSE 20)

\* what the score holds once the authority points are taken off; the
\* holder term, which needs no pool, is taken off as well
PoolDependentPoints ==
    IF script = "lp-burn"
    THEN riskScore - AuthorityPoints(audit.tokenInfo)
                   - Concentration(audit.holderData.topHolders)
    ELSE riskScore - AuthorityPoints(audit.mintInfo)
                   - (IF audit.holders.top10Pct > 800 THEN 10 ELSE 0)

\* C23: when no pool was resolved, the score holds nothing beyond the
\* points of the authority flags (and of the holder distribution): the LP
\* burn term and the other pool-dependent terms add nothing.
C23_ZeroPoolsAuthorityOnly ==
    (pc = "scored" /\ ZeroPools) => PoolDependentPoints = 0

(***************************************************************************)
(* Claims about the risk level.                                            *)
(***************************************************************************)
\* C24: x1-token-audit.js, x1-batch-audit.js and telegram-bot.js report,
\* for a score, the level the README documents for it: LOW up to 24,
\* MEDIUM from 25 to 49, HIGH from 50.
C24_LevelAsDocumented ==
    ( /\ pc = "scored"
      /\ script \in {"token-audit", "batch", "telegram"}
      /\ riskRating \in {"LOW", "MEDIUM", "HIGH"} )
    => riskRating = ReadmeLevel(riskScore)

(***************************************************************************)
(* Claims about the close-account method and the length of a scan.         *)
(***************************************************************************)
\* an account of the LP mint held amt before the transaction and nothing
\* after it
Zeroed(tx, lpMint, amt) ==
    /\ tx.meta # Null
    /\ \E k \in 1..Len(tx.meta.pre) :
          /\ tx.meta.pre[k].mint = lpMint
          /\ tx.meta.pre[k].amount = amt
          /\ amt > 0
          /\ \A j \in 1..Len(tx.meta.post) :
                ( /\ tx.meta.post[j].accountIndex = tx.meta.pre[k].accountIndex
                  /\ tx.meta.post[j].mint = lpMint )
                => tx.meta.post[j].amount = 0

ClosesAnAccount(tx) ==
    \E i \in 1..Len(tx.instructions) :
        tx.instructions[i].type \in {"closeAccount", "closeChecked"}

\* the step adds an event of the close-account method
AddsCloseEvent ==
    \E i \in (Len(burnCheckedTxs) + 1)..Len(burnCheckedTxs') :
        burnCheckedTxs'[i].type = "closeAccount (burn)"

\* C25: whatever transaction the step fetched, a close-account event it
\* adds bears the signature scanned, the transaction holds a close-account
\* instruction, and the event's amount is the balance an account of the
\* scanned LP mint had before the transaction and lost in it.
C25_CloseAccountEvent ==
    [][(scanPc = "sigs" /\ AddsCloseEvent) =>
          \A tx \in TxSet :
              burnCheckedTxs' = ScanTransaction(burnCheckedTxs, tx,
                                                Head(sigQueue), curMint)
              => \A i \in (Len(burnCheckedTxs) + 1)..Len(burnCheckedTxs') :
                    burnCheckedTxs'[i].type = "closeAccount (burn)"
                    => /\ burnCheckedTxs'[i].signature = Head(sigQueue)
                       /\ ClosesAnAccount(tx)
                       /\ Zeroed(tx, curMint, burnCheckedTxs'[i].amount)]_vars

\* account 1 keeps its 5, account 2 loses its 4: one event of 4
C25_Witness ==
    \E i \in 1..Len(burnCheckedTxs) :
        /\ burnCheckedTxs[i].type = "closeAccount (burn)"
        /\ burnCheckedTxs[i].amount = 4

\* C27: the scan of one LP mint returns, and it has then looked up no more
\* transactions than the history depth it was given, whether the lookups
\* answer, answer null or throw.
C27_ScanBounded ==
    /\ [](lookups <= limit)
    /\ <>(checkPc = "returned")

\* the chain holds more signatures than the depth, and every one of the
\* newest two was looked up: one held a burn, one failed
C27_Witness ==
    /\ checkPc = "returned"
    /\ limit = 2 /\ onChain = 3
    /\ lookups = 2
    /\ burnsFound = <<[signature |-> 2, amount |-> 3]>>

(***************************************************************************)
(* Claims about the amount held at burn addresses.                         *)
(***************************************************************************)
RECURSIVE SinkHeld(_)
SinkHeld(accounts) ==
    IF accounts = <<>> THEN 0
    ELSE (IF Head(accounts).readable /\ Head(accounts).owner \in BURN_ADDRESSES
          THEN Head(accounts).amount ELSE 0) + SinkHeld(Tail(accounts))

\* C26: when the holder accounts have been read, the amount held at burn
\* addresses is the summed balance of the accounts of the LP mint whose
\* owner is a burn address, not that of accounts of the audited token.
C26_SinkHeldIsOfLpMint ==
    statusPc = "done" => burnedAmount = SinkHeld(holdersOf.lpMint)

(***************************************************************************)
(* Claims about what is reported without a decoded mint.                   *)
(***************************************************************************)
\* an account of at least 82 bytes was read
MintWasRead == rpc = "ok" /\ Len(data) >= MintLen

\* C28: an authority is reported revoked only if a mint account of at
\* least 82 bytes was read and the authority's discriminant is not 1; a
\* missing account, a shorter one or a failed read never gives "revoked".
C28_RevokedOnlyIfRead ==
    outcome = "returned" =>
        /\ result.mintAuthorityRevoked
              => (MintWasRead /\ SubSeq(data, 1, 4) # <<1, 0, 0, 0>>)
        /\ result.freezeAuthorityRevoked
              => (MintWasRead /\ SubSeq(data, 47, 50) # <<1, 0, 0, 0>>)

\* an account of 81 bytes whose discriminants are 0: nothing is reported
\* revoked
C28_Witness ==
    /\ outcome = "returned"
    /\ rpc = "ok" /\ Len(data) = MintLen - 1
    /\ SubSeq(data, 1, 4) = <<0, 0, 0, 0>>
    /\ SubSeq(data, 47, 50) = <<0, 0, 0, 0>>
    /\ ~result.mintAuthorityRevoked /\ ~result.freezeAuthorityRevoked

(***************************************************************************)
(* Properties of the polling loop (checked under PollSpec).                *)
(***************************************************************************)
\* C29: every update is passed to handleUpdate at most once, whether or not
\* its handler throws; when an update is handled the offset is already its
\* update_id + 1; a getUpdates call that fails leaves the offset as it was.
C29_HandledAtMostOnce ==
    /\ [](\A u \in 1..MaxUpdates : handled[u] <= 1)
    /\ [](pollPc = "handle" => offset = Head(response) + 1)
    /\ [][(pollPc = "poll" /\ pollPc' = "wait") => offset' = offset]_vars

\* both updates of one answer were handled once, the first handler threw,
\* and a later getUpdates call failed
C29_Witness ==
    /\ handled[1] = 1 /\ handled[2] = 1
    /\ 1 \in handlerErrors
    /\ offset = 3
    /\ arrived = 3
    /\ pollPc = "wait"

(***************************************************************************)
(* Properties of the audit history (checked under HistorySpec).            *)
(***************************************************************************)
\* C30: after a completed /audit command the history in memory holds at
\* most maxHistory entries, and they are the latest of the entries loaded
\* at start-up followed by the audits completed since, in that order.
C30_HistoryBounded ==
    historyPc = "audited" =>
        /\ Len(auditHistory) <= maxHistory
        /\ Len(auditHistory) <= Len(completedAudits)
        /\ \A i \in 1..Len(auditHistory) :
              auditHistory[i] =
                  completedAudits[Len(completedAudits) - Len(auditHistory) + i]
        /\ Len(completedAudits) > maxHistory => Len(auditHistory) = maxHistory
        /\ Len(completedAudits) <= maxHistory => auditHistory = completedAudits

\* a file of maxHistory + 2 entries was loaded and two audits completed:
\* the history ends with the two audits and has lost the four oldest entries
C30_Witness ==
    /\ historyPc = "audited"
    /\ Len(completedAudits) = maxHistory + 4
    /\ Len(auditHistory) = maxHistory
    /\ auditHistory[maxHistory].timestamp = 2
    /\ auditHistory[maxHistory - 1].timestamp = 1
    /\ auditHistory[1].timestamp = 3 - maxHistory

====
